---------------------------- MODULE Spec2Model ----------------------------
(***************************************************************************)
(* A model of the NuGet dependency visualizer's analysis core:             *)
(*   - DotNetCliService      (src/src/services/assetManager.ts)            *)
(*   - ProjectFileParser     (src/src/services/cacheManager.ts)            *)
(*   - CacheManager          (src/src/services/cacheManager.ts)            *)
(*   - NuGetDependencyProvider (src/src/providers/nugetDependencyProvider) *)
(* Strings the code inspects character by character are sequences of       *)
(* one-character strings; texts the code only searches with includes()     *)
(* are the sets of the searched phrases they contain.                      *)
(***************************************************************************)
EXTENDS Integers, Sequences, FiniteSets, TLC

VARIABLES
    sevInput,            \* normalizeSeverity: the argument (a JS value)
    sevMade,             \* how the argument was built: word, letter case, padding
    sevResult,           \* normalizeSeverity: the value returned, "none" before the call
    cache,               \* CacheManager.cache : key -> CacheEntry
    now,                 \* the clock read by new Date() / Date.now(), in ms
    written,             \* per key, the last set() not yet deleted or cleared
    cacheOp,             \* the last call on the cache or change of a cached object
    files,               \* the cache directory: file name -> content
    stored,              \* the cacheVulnerabilityData call just made, if any
    vulnOp,              \* the last persistent-cache call and what it returned
    lastAnalysisMethod,  \* NuGetDependencyProvider.lastAnalysisMethod
    runs,                \* the analysis runs in flight on the shared provider
    heap,                \* the callers' objects: reference -> content
    call                 \* a call of one method on its own: arguments and outcome

vars == << sevInput, sevMade, sevResult, cache, now, written, cacheOp,
           files, stored, vulnOp, lastAnalysisMethod, runs, heap, call >>

sevVars   == << sevInput, sevMade, sevResult >>
cacheVars == << cache, written, cacheOp >>
vulnVars  == << files, stored, vulnOp >>
runVars   == << lastAnalysisMethod, runs >>
callVars  == << heap, call >>

-----------------------------------------------------------------------------
(* Strings                                                                 *)

UpperCase == << "A","B","C","D","E","F","G","H","I","J","K","L","M",
                "N","O","P","Q","R","S","T","U","V","W","X","Y","Z" >>
LowerCase == << "a","b","c","d","e","f","g","h","i","j","k","l","m",
                "n","o","p","q","r","s","t","u","v","w","x","y","z" >>

WhiteSpace == { " ", "\t", "\n" }

ToLowerChar(c) ==
    IF \E i \in DOMAIN UpperCase : UpperCase[i] = c
    THEN LowerCase[CHOOSE i \in DOMAIN UpperCase : UpperCase[i] = c]
    ELSE c

ToUpperChar(c) ==
    IF \E i \in DOMAIN LowerCase : LowerCase[i] = c
    THEN UpperCase[CHOOSE i \in DOMAIN LowerCase : LowerCase[i] = c]
    ELSE c

\* String.prototype.toLowerCase
ToLowerCase(s) == [i \in DOMAIN s |-> ToLowerChar(s[i])]

ToUpperCase(s) == [i \in DOMAIN s |-> ToUpperChar(s[i])]

RECURSIVE TrimStart(_)
TrimStart(s) ==
    IF s # << >> /\ Head(s) \in WhiteSpace THEN TrimStart(Tail(s)) ELSE s

RECURSIVE TrimEnd(_)
TrimEnd(s) ==
    IF s # << >> /\ s[Len(s)] \in WhiteSpace
    THEN TrimEnd(SubSeq(s, 1, Len(s) - 1))
    ELSE s

\* String.prototype.trim
Trim(s) == TrimEnd(TrimStart(s))

-----------------------------------------------------------------------------
(* DotNetCliService.normalizeSeverity                                      *)

Severities == { "Critical", "High", "Moderate", "Low" }

W_critical == << "c","r","i","t","i","c","a","l" >>
W_high     == << "h","i","g","h" >>
W_moderate == << "m","o","d","e","r","a","t","e" >>
W_medium   == << "m","e","d","i","u","m" >>
W_low      == << "l","o","w" >>

\* JS values: a string carries its characters, a number its value.
JsString(s) == [type |-> "string", chars |-> s, num |-> 0]
JsNumber(n) == [type |-> "number", chars |-> << >>, num |-> n]
JsNull      == [type |-> "null", chars |-> << >>, num |-> 0]
JsUndefined == [type |-> "undefined", chars |-> << >>, num |-> 0]
JsObject    == [type |-> "object", chars |-> << >>, num |-> 0]

\* !v
Falsy(v) ==
    \/ v.type \in { "null", "undefined" }
    \/ v.type = "string" /\ v.chars = << >>
    \/ v.type = "number" /\ v.num = 0

\* The switch of normalizeSeverity without the toLowerCase(): what a
\* case-sensitive comparison would return.
NormalizeSeverityCaseSensitive(severity) ==
    IF Falsy(severity) \/ severity.type # "string" THEN "Low"
    ELSE LET normalized == Trim(severity.chars)
         IN  CASE normalized = W_critical -> "Critical"
               [] normalized = W_high     -> "High"
               [] normalized = W_moderate -> "Moderate"
               [] normalized = W_medium   -> "Moderate"
               [] normalized = W_low      -> "Low"
               [] OTHER                   -> "Low"

NormalizeSeverity(severity) ==
    IF Falsy(severity) \/ severity.type # "string" THEN "Low"
    ELSE LET normalized == Trim(ToLowerCase(severity.chars))
         IN  CASE normalized = W_critical -> "Critical"
               [] normalized = W_high     -> "High"
               [] normalized = W_moderate -> "Moderate"
               [] normalized = W_medium   -> "Moderate"
               [] normalized = W_low      -> "Low"
               [] OTHER                   -> "Low"


(* The arguments normalizeSeverity is applied to: a word in some letter    *)
(* case between two runs of white space, or a value that is no string.     *)

MaxPad == 1

SevWords ==
    { W_critical, W_high, W_moderate, W_medium, W_low,
      << >>,
      << "h","i","g" >>,
      << "h","i"," ","g","h" >>,
      << "l","o","w","s" >>,
      << "s","e","v","e","r","e" >>,
      << "u","n","k","n","o","w","n" >> }

CaseModes == { "lower", "upper", "capital", "mixed" }

ApplyCase(w, mode) ==
    CASE mode = "lower"   -> w
      [] mode = "upper"   -> ToUpperCase(w)
      [] mode = "capital" -> [i \in DOMAIN w |-> IF i = 1 THEN ToUpperChar(w[i]) ELSE w[i]]
      [] OTHER            -> [i \in DOMAIN w |-> IF i % 2 = 0 THEN ToUpperChar(w[i]) ELSE w[i]]

Pads == UNION { [1..n -> WhiteSpace] : n \in 0..MaxPad }

NoWord == [isString |-> FALSE, word |-> << >>, mode |-> "lower",
           padLeft |-> << >>, padRight |-> << >>]

SevStringCases ==
    { [isString |-> TRUE, word |-> w, mode |-> m, padLeft |-> l, padRight |-> r] :
        w \in SevWords, m \in CaseModes, l \in Pads, r \in Pads }

SevOtherValues == { JsNull, JsUndefined, JsNumber(0), JsNumber(7), JsObject }

SevText(made) == made.padLeft \o ApplyCase(made.word, made.mode) \o made.padRight

SevDraw(input, made) ==
    \/ /\ made \in SevStringCases
       /\ input = JsString(SevText(made))
    \/ /\ made = NoWord
       /\ input \in SevOtherValues

SevIdle ==
    /\ sevInput = JsUndefined
    /\ sevMade = NoWord
    /\ sevResult = "none"

\* parseVulnerablePackagesOutput line 977: the call on one severity value
OnlySeverity == UNCHANGED << now, cacheVars, vulnVars, runVars, callVars >>

SevNormalize ==
    /\ OnlySeverity
    /\ sevResult = "none"
    /\ sevResult' = NormalizeSeverity(sevInput)
    /\ UNCHANGED << sevInput, sevMade >>

-----------------------------------------------------------------------------
(* CacheManager, in-memory tier                                            *)

DefaultTtl == 1800000               \* 30 * 60 * 1000
VulnerabilityTtl == 86400000        \* 24 * 60 * 60 * 1000

MaxTick == 1

CacheKeys == { 1, 2 }
CacheValues == { "v1", "v2" }
ShortTtl == 1000
\* the ttl argument of set(): absent, or a number of milliseconds
NoTtl == [given |-> FALSE, ms |-> 0]
TtlArgs == { NoTtl } \cup { [given |-> TRUE, ms |-> n] : n \in { 0, ShortTtl } }

NoEntry == [present |-> FALSE, data |-> "", timestamp |-> 0, expiresAt |-> 0, key |-> 0]
NoWrite == [present |-> FALSE, data |-> "", content |-> 0, at |-> 0, ttl |-> NoTtl]
Null == "null"

\* the instants at which the cache is called
CacheInstants == { base + i : base \in { 0, ShortTtl, DefaultTtl }, i \in 0..MaxTick }

\* new Date() > entry.expiresAt
Expired(entry, t) == t > entry.expiresAt

\* ttl ?? this.defaultTtl
TimeToLive(ttl) == IF ttl.given THEN ttl.ms ELSE DefaultTtl

\* get(key): <<the value returned, the map afterwards>>
GetNoEviction(c, key, t) ==
    IF ~c[key].present THEN << Null, c >>
    ELSE IF Expired(c[key], t) THEN << Null, c >>
    ELSE << c[key].data, c >>

GetOf(c, key, t) ==
    IF ~c[key].present THEN << Null, c >>
    ELSE IF Expired(c[key], t) THEN << Null, [c EXCEPT ![key] = NoEntry] >>
    ELSE << c[key].data, c >>

\* has(key): <<the value returned, the map afterwards>>
HasOf(c, key, t) ==
    IF ~c[key].present THEN << FALSE, c >>
    ELSE IF Expired(c[key], t) THEN << FALSE, [c EXCEPT ![key] = NoEntry] >>
    ELSE << TRUE, c >>

\* set(key, data, ttl): the map afterwards
SetOf(c, key, data, ttl, t) ==
    [c EXCEPT ![key] = [present |-> TRUE, data |-> data, timestamp |-> t,
                        expiresAt |-> t + TimeToLive(ttl), key |-> key]]

\* a sweep that takes an entry for dead at the instant it expires
CleanupOfInclusive(c, t) ==
    [k \in DOMAIN c |-> IF c[k].present /\ t >= c[k].expiresAt THEN NoEntry ELSE c[k]]

\* cleanup(): the map afterwards
CleanupOf(c, t) ==
    [k \in DOMAIN c |-> IF c[k].present /\ Expired(c[k], t) THEN NoEntry ELSE c[k]]

NoCacheOp == [op |-> "none", key |-> 0, result |-> Null, at |-> 0]

\* no method is called on its own, and the callers' objects are as made
NoCall == [op |-> "none"]

HeapInit == heap = [v \in CacheValues |-> 0]

CallIdle ==
    /\ HeapInit
    /\ call = NoCall

OnlyCache == UNCHANGED << sevVars, vulnVars, runVars, callVars >>

CacheInit ==
    /\ cache = [k \in CacheKeys |-> NoEntry]
    /\ written = [k \in CacheKeys |-> NoWrite]
    /\ cacheOp = NoCacheOp

CacheSet(key, data, ttl) ==
    /\ OnlyCache
    /\ cache' = SetOf(cache, key, data, ttl, now)
    /\ written' = [written EXCEPT ![key] =
                      [present |-> TRUE, data |-> data, content |-> heap[data],
                       at |-> now, ttl |-> ttl]]
    /\ cacheOp' = [op |-> "set", key |-> key, result |-> Null, at |-> now]
    /\ UNCHANGED now

CacheGet(key) ==
    /\ OnlyCache
    /\ cache' = GetOf(cache, key, now)[2]
    /\ cacheOp' = [op |-> "get", key |-> key, result |-> GetOf(cache, key, now)[1], at |-> now]
    /\ UNCHANGED << written, now >>

CacheHas(key) ==
    /\ OnlyCache
    /\ cache' = HasOf(cache, key, now)[2]
    /\ cacheOp' = [op |-> "has", key |-> key, result |-> HasOf(cache, key, now)[1], at |-> now]
    /\ UNCHANGED << written, now >>

CacheDelete(key) ==
    /\ OnlyCache
    /\ cache' = [cache EXCEPT ![key] = NoEntry]
    /\ written' = [written EXCEPT ![key] = NoWrite]
    /\ cacheOp' = [op |-> "delete", key |-> key, result |-> Null, at |-> now]
    /\ UNCHANGED now

CacheClear ==
    /\ OnlyCache
    /\ cache' = [k \in CacheKeys |-> NoEntry]
    /\ written' = [k \in CacheKeys |-> NoWrite]
    /\ cacheOp' = [op |-> "clear", key |-> 0, result |-> Null, at |-> now]
    /\ UNCHANGED now

CacheCleanup ==
    /\ OnlyCache
    /\ cache' = CleanupOf(cache, now)
    /\ cacheOp' = [op |-> "cleanup", key |-> 0, result |-> Null, at |-> now]
    /\ UNCHANGED << written, now >>

\* time passes between two calls
CacheTick ==
    /\ OnlyCache
    /\ \E t \in CacheInstants : t > now /\ now' = t
    /\ UNCHANGED cacheVars

\* the values handed to set() are objects of the callers: a value of
\* CacheValues is the reference, heap gives what the object holds now, as
\* the number of changes made to it
MaxMutations == 2

\* a caller changes an object it made or got from get()
Mutate(ref) ==
    /\ heap[ref] < MaxMutations
    /\ heap' = [heap EXCEPT ![ref] = @ + 1]
    /\ cacheOp' = [op |-> "mutate", key |-> 0, result |-> Null, at |-> now]
    /\ UNCHANGED << sevVars, vulnVars, runVars, call, cache, written, now >>

NextCache ==
    \/ \E k \in CacheKeys, v \in CacheValues, ttl \in TtlArgs : CacheSet(k, v, ttl)
    \/ \E k \in CacheKeys : CacheGet(k)
    \/ \E k \in CacheKeys : CacheHas(k)
    \/ \E k \in CacheKeys : CacheDelete(k)
    \/ CacheClear
    \/ CacheCleanup
    \/ CacheTick

-----------------------------------------------------------------------------
(* CacheManager, persistent vulnerability cache                            *)

\* 32-bit two's complement arithmetic, as the bitwise operators of JS give
MaxInt32 == 2147483647
MinInt32 == (-2147483647) - 1

\* a + b wrapped to 32 bits
AddInt32(a, b) ==
    IF a >= 0 /\ b >= 0
    THEN IF a > MaxInt32 - b THEN (a + MinInt32) + (b + MinInt32) ELSE a + b
    ELSE IF a < 0 /\ b < 0
         THEN IF a < MinInt32 - b THEN (a - MinInt32) + (b - MinInt32) ELSE a + b
         ELSE a + b

\* the same, with both operands evaluated once
AddWrap(x, y) == CHOOSE r \in { AddInt32(a, b) : a \in { x }, b \in { y } } : TRUE

NegWrap(a) == IF a = MinInt32 THEN MinInt32 ELSE 0 - a

\* x << 5
ShiftLeft5(x) ==
    LET d1 == AddWrap(x, x)
        d2 == AddWrap(d1, d1)
        d3 == AddWrap(d2, d2)
        d4 == AddWrap(d3, d3)
    IN  AddWrap(d4, d4)

\* String.prototype.charCodeAt for the characters of the modelled paths
CharCode(c) ==
    IF \E i \in DOMAIN UpperCase : UpperCase[i] = c
    THEN 64 + (CHOOSE i \in DOMAIN UpperCase : UpperCase[i] = c)
    ELSE IF \E i \in DOMAIN LowerCase : LowerCase[i] = c
         THEN 96 + (CHOOSE i \in DOMAIN LowerCase : LowerCase[i] = c)
         ELSE IF c = "." THEN 46 ELSE 47

\* one round of the loop of simpleHash: hash = (hash << 5) - hash + char,
\* then hash & hash
HashStep(hash, char) ==
    AddWrap(AddWrap(ShiftLeft5(hash), NegWrap(hash)), CharCode(char))

\* the loop of simpleHash over the rest of the string
RECURSIVE HashFrom(_, _)
HashFrom(hash, str) ==
    IF str = << >> THEN hash
    ELSE CHOOSE r \in { HashFrom(HashStep(h, Head(str)), Tail(str)) : h \in { hash } } : TRUE

\* Math.abs(hash).toString(36), kept as the number it spells (2^31 apart)
SimpleHash(str) ==
    LET hash == HashFrom(0, str)
    IN  [two31 |-> hash = MinInt32,
         digits |-> IF hash = MinInt32 THEN 0 ELSE IF hash < 0 THEN 0 - hash ELSE hash]

\* A path is the sequence of its segments, each a string.
Seg_a == << "a" >>
Seg_b == << "b" >>
Seg_dot == << "." >>
Seg_up == << ".", "." >>
Seg_App == << "A","p","p",".","c","s","p","r","o","j" >>
Seg_Lib == << "L","i","b",".","c","s","p","r","o","j" >>
Ext_csproj == << ".","c","s","p","r","o","j" >>

ProjectPaths ==
    { << Seg_a, Seg_App >>,
      << Seg_b, Seg_up, Seg_a, Seg_dot, Seg_App >>,
      << Seg_b, Seg_Lib >> }

\* path.normalize on an absolute path
RECURSIVE NormalizeFrom(_, _)
NormalizeFrom(done, rest) ==
    IF rest = << >> THEN done
    ELSE IF Head(rest) = Seg_dot THEN NormalizeFrom(done, Tail(rest))
    ELSE IF Head(rest) = Seg_up
         THEN NormalizeFrom(IF done = << >> THEN done ELSE SubSeq(done, 1, Len(done) - 1),
                            Tail(rest))
         ELSE NormalizeFrom(Append(done, Head(rest)), Tail(rest))

Normalize(path) == NormalizeFrom(<< >>, path)

RECURSIVE PathText(_)
PathText(path) ==
    IF path = << >> THEN << >> ELSE << "/" >> \o Head(path) \o PathText(Tail(path))

EndsWith(str, suffix) ==
    /\ Len(str) >= Len(suffix)
    /\ SubSeq(str, Len(str) - Len(suffix) + 1, Len(str)) = suffix

\* path.basename(p, ext)
Basename(path, ext) ==
    LET last == path[Len(path)]
    IN  IF EndsWith(last, ext) /\ last # ext
        THEN SubSeq(last, 1, Len(last) - Len(ext))
        ELSE last

\* getVulnerabilityCacheKey: `vuln_${projectName}_${hash}`
GetVulnerabilityCacheKey(projectPath) ==
    [projectName |-> Basename(projectPath, Ext_csproj),
     hash |-> SimpleHash(PathText(Normalize(projectPath)))]

\* path.join(this.cacheDir, `${cacheKey}.json`), for each modelled project
CacheFileOf == [p \in ProjectPaths |-> GetVulnerabilityCacheKey(p)]

CacheFiles == { CacheFileOf[p] : p \in ProjectPaths }

\* VulnerabilityInfo objects; description is optional
Undefined == "undefined"
VulnInfoFields == { "packageName", "packageVersion", "severity", "title", "description" }
Info1 == [packageName |-> "Foo.Bar", packageVersion |-> "1.0.0", severity |-> "High",
          title |-> "t1", description |-> Undefined]
Info2 == [packageName |-> "Foo.Baz", packageVersion |-> "2.0.0", severity |-> "Low",
          title |-> "t2", description |-> "d2"]
VulnLists == { << >>, << Info1, Info2 >> }

\* obj[field] of a JS object: undefined when the property is absent
Prop(obj, field) == IF field \in DOMAIN obj THEN obj[field] ELSE Undefined

\* JSON.stringify then JSON.parse of an object: properties whose value is
\* undefined are not written, so they are absent from the object read back
JsonObject(obj) ==
    [f \in { g \in DOMAIN obj : obj[g] # Undefined } |-> obj[f]]

JsonList(list) == [i \in DOMAIN list |-> JsonObject(list[i])]

\* Date.prototype.toISOString and new Date(iso): the instant in ms, spelled out
ToISOString(ms) == [iso |-> ms]
DateOf(text) == text.iso

\* what getCachedVulnerabilityData returns, seen through its properties
NullResult == [isNull |-> TRUE, list |-> << >>]
ListResult(list) == [isNull |-> FALSE, list |-> list]

SameList(got, list) ==
    /\ ~got.isNull
    /\ Len(got.list) = Len(list)
    /\ \A i \in DOMAIN list :
          \A f \in VulnInfoFields : Prop(got.list[i], f) = Prop(list[i], f)

\* A file of the cache directory.
NoFile == [exists |-> FALSE, parses |-> FALSE, json |-> << >>]
Garbled == [exists |-> TRUE, parses |-> FALSE, json |-> << >>]

\* a cacheData object that expires at the instant it is written
CacheDataNoExpiry(projectPath, vulnerabilities, t) ==
    [projectPath |-> projectPath,
     vulnerabilities |-> JsonList(vulnerabilities),
     timestamp |-> ToISOString(t),
     expiresAt |-> ToISOString(t)]

\* the cacheData object of cacheVulnerabilityData, as JSON.stringify writes it
CacheData(projectPath, vulnerabilities, t) ==
    [projectPath |-> projectPath,
     vulnerabilities |-> JsonList(vulnerabilities),
     timestamp |-> ToISOString(t),
     expiresAt |-> ToISOString(t + VulnerabilityTtl)]

\* fs.promises.writeFile: "ok", "fail" (nothing written) or "partial"
WriteOutcomes == { "ok", "fail", "partial" }

\* cacheVulnerabilityData: the directory afterwards; a failed write is only logged
CacheVulnerabilityDataOf(fs, projectPath, vulnerabilities, t, outcome) ==
    LET cacheFile == CacheFileOf[projectPath]
    IN  CASE outcome = "ok" ->
               [fs EXCEPT ![cacheFile] =
                   [exists |-> TRUE, parses |-> TRUE,
                    json |-> CacheData(projectPath, vulnerabilities, t)]]
          [] outcome = "partial" -> [fs EXCEPT ![cacheFile] = Garbled]
          [] OTHER -> fs

\* the try block of getCachedVulnerabilityData: whether it threw, the value
\* returned, and whether the unlink of an expired file was issued
ReadTry(fs, projectPath, t, readOk) ==
    LET file == fs[CacheFileOf[projectPath]]
    IN  IF ~file.exists THEN [threw |-> FALSE, value |-> NullResult, unlink |-> FALSE]
        ELSE IF ~readOk THEN [threw |-> TRUE, value |-> NullResult, unlink |-> FALSE]
        ELSE IF ~file.parses THEN [threw |-> TRUE, value |-> NullResult, unlink |-> FALSE]
        ELSE IF t > DateOf(file.json.expiresAt)
             THEN [threw |-> FALSE, value |-> NullResult, unlink |-> TRUE]
             ELSE [threw |-> FALSE, value |-> ListResult(file.json.vulnerabilities),
                   unlink |-> FALSE]

\* getCachedVulnerabilityData: the catch block turns every failure into null
GetCachedVulnerabilityDataOf(fs, projectPath, t, readOk) ==
    LET r == ReadTry(fs, projectPath, t, readOk)
    IN  IF r.threw THEN [threw |-> FALSE, value |-> NullResult, unlink |-> FALSE] ELSE r

VulnInstants == { base + i : base \in { 0, VulnerabilityTtl }, i \in 0..MaxTick }

NoStore == [valid |-> FALSE, path |-> << >>, list |-> << >>, at |-> 0, outcome |-> "none"]
NoVulnOp == [op |-> "none", path |-> << >>, at |-> 0, threw |-> FALSE,
             result |-> NullResult, saw |-> "none", unlinkOk |-> FALSE, after |-> NoStore]

\* what a read finds on disk, in the words of the cache's contract
FileSeen(fs, projectPath, t, readOk) ==
    LET file == fs[CacheFileOf[projectPath]]
    IN  CASE ~file.exists -> "missing"
          [] file.exists /\ ~readOk -> "unreadable"
          [] file.exists /\ readOk /\ ~file.parses -> "unparseable"
          [] OTHER -> IF t > file.json.expiresAt.iso THEN "expired" ELSE "fresh"

VulnInit ==
    /\ files = [f \in CacheFiles |-> NoFile]
    /\ stored = NoStore
    /\ vulnOp = NoVulnOp

OnlyVuln == UNCHANGED << sevVars, cacheVars, runVars, callVars >>

VulnStore(projectPath, vulnerabilities, outcome) ==
    /\ OnlyVuln
    /\ files' = CacheVulnerabilityDataOf(files, projectPath, vulnerabilities, now, outcome)
    /\ stored' = [valid |-> TRUE, path |-> projectPath, list |-> vulnerabilities,
                  at |-> now, outcome |-> outcome]
    /\ vulnOp' = [NoVulnOp EXCEPT !.op = "store"]
    /\ UNCHANGED now

VulnRead(projectPath, readOk, unlinkOk) ==
    /\ OnlyVuln
    /\ LET r == GetCachedVulnerabilityDataOf(files, projectPath, now, readOk)
           cacheFile == CacheFileOf[projectPath]
       IN  /\ files' = IF r.unlink /\ unlinkOk
                       THEN [files EXCEPT ![cacheFile] = NoFile]
                       ELSE files
           /\ vulnOp' = [op |-> "read", path |-> projectPath, at |-> now,
                         threw |-> r.threw, result |-> r.value,
                         saw |-> FileSeen(files, projectPath, now, readOk),
                         unlinkOk |-> r.unlink /\ unlinkOk,
                         after |-> stored]
    /\ stored' = NoStore
    /\ UNCHANGED now

\* the file is damaged from outside the cache
VulnGarble(f) ==
    /\ OnlyVuln
    /\ files[f].exists
    /\ files' = [files EXCEPT ![f] = Garbled]
    /\ stored' = NoStore
    /\ vulnOp' = NoVulnOp
    /\ UNCHANGED now

VulnTick ==
    /\ OnlyVuln
    /\ \E t \in VulnInstants : t > now /\ now' = t
    /\ UNCHANGED vulnVars

NextVuln ==
    \/ \E p \in ProjectPaths, l \in VulnLists, o \in WriteOutcomes : VulnStore(p, l, o)
    \/ \E p \in ProjectPaths, readOk \in BOOLEAN, unlinkOk \in BOOLEAN :
          VulnRead(p, readOk, unlinkOk)
    \/ \E f \in CacheFiles : VulnGarble(f)
    \/ VulnTick

\* getCacheInfo
OneHour == 3600000                  \* 60 * 60 * 1000

\* hasValidVulnerabilityCache: every failure is false
HasValidVulnerabilityCacheOf(fs, projectPath, t, readOk) ==
    LET file == fs[CacheFileOf[projectPath]]
    IN  /\ file.exists
        /\ readOk
        /\ file.parses
        /\ t <= DateOf(file.json.expiresAt)

NoAge == [given |-> FALSE, ms |-> 0]

\* getCacheInfo(projectPath): the object returned.  c is the in-memory map;
\* readOk and againOk are whether the read of hasValidVulnerabilityCache
\* and the read of getCacheInfo itself succeed
GetCacheInfoOf(fs, c, projectPath, t, readOk, againOk) ==
    LET inMemorySize == Cardinality({ k \in DOMAIN c : c[k].present })
        file == fs[CacheFileOf[projectPath]]
        has == HasValidVulnerabilityCacheOf(fs, projectPath, t, readOk)
        cacheAge == t - DateOf(file.json.timestamp)
    IN  IF has /\ againOk
        THEN [inMemorySize |-> inMemorySize, hasVulnerabilityCache |-> TRUE,
              vulnerabilityCacheAge |-> [given |-> TRUE, ms |-> cacheAge],
              offlineMode |-> cacheAge > OneHour]
        ELSE [inMemorySize |-> inMemorySize, hasVulnerabilityCache |-> has,
              vulnerabilityCacheAge |-> NoAge, offlineMode |-> FALSE]

InfoInstants ==
    { base + i : base \in { 0, OneHour, VulnerabilityTtl }, i \in 0..MaxTick }

VulnInfo(projectPath, readOk, againOk) ==
    /\ OnlyVuln
    /\ vulnOp' = [op |-> "info", path |-> projectPath, at |-> now,
                  readOk |-> readOk /\ againOk,
                  info |-> GetCacheInfoOf(files, cache, projectPath, now, readOk, againOk)]
    /\ stored' = NoStore
    /\ UNCHANGED << files, now >>

InfoTick ==
    /\ OnlyVuln
    /\ \E t \in InfoInstants : t > now /\ now' = t
    /\ UNCHANGED vulnVars

NextInfo ==
    \/ \E p \in ProjectPaths, l \in VulnLists, o \in WriteOutcomes : VulnStore(p, l, o)
    \/ \E p \in ProjectPaths, readOk \in BOOLEAN, againOk \in BOOLEAN :
          VulnInfo(p, readOk, againOk)
    \/ InfoTick

(* Concurrent calls on one cache file.  fs.promises.writeFile opens the    *)
(* file with flag 'w', which empties it, and then writes the text at its   *)
(* own offset in one or more write calls, each awaited; nothing locks the  *)
(* file and nothing is written aside and renamed.  The text is seen in     *)
(* units: the head up to the list, one unit per list entry, and the tail   *)
(* with the two dates.  The lists written here have entries of one length, *)
(* so a unit is at the same offset in every text.                          *)
MaxWriters == 2
Writers == 1..MaxWriters

RacePath == << Seg_a, Seg_App >>
Info1Patched == [Info1 EXCEPT !.packageVersion = "1.0.1"]
RaceLists == { << Info1 >>, << Info1, Info1 >>, << Info1Patched, Info1Patched >> }

\* JSON.stringify(cacheData, null, 2), unit by unit
TextOf(data) ==
    << [kind |-> "head", index |-> 0, data |-> data] >>
        \o [i \in 1..Len(data.vulnerabilities) |->
               [kind |-> "entry", index |-> i, data |-> data]]
        \o << [kind |-> "tail", index |-> 0, data |-> data] >>

\* the file as existsSync, readFile and JSON.parse find it: JSON.parse
\* accepts a head, entries and a tail with nothing after, whichever texts
\* the units come from
FileOfText(exists, text) ==
    LET n == Len(text)
        wellFormed == /\ n >= 2
                      /\ text[1].kind = "head"
                      /\ text[n].kind = "tail"
                      /\ \A i \in 2..(n - 1) : text[i].kind = "entry"
    IN  IF ~exists THEN NoFile
        ELSE IF ~wellFormed THEN Garbled
        ELSE [exists |-> TRUE, parses |-> TRUE,
              json |-> [projectPath |-> text[1].data.projectPath,
                        vulnerabilities |->
                            [i \in 1..(n - 2) |->
                                text[i + 1].data.vulnerabilities[text[i + 1].index]],
                        timestamp |-> text[n].data.timestamp,
                        expiresAt |-> text[n].data.expiresAt]]

NoWriter == [pc |-> "idle", list |-> << >>, text |-> << >>, offset |-> 0]
NoRace == [op |-> "race", exists |-> FALSE, text |-> << >>,
           writers |-> [w \in Writers |-> NoWriter]]

OnlyRace == UNCHANGED << sevVars, cacheVars, runVars, heap, now >>

\* cacheVulnerabilityData up to its await: the text is made, writeFile is
\* called
RaceWrite(w, vulnerabilities) ==
    /\ call.writers[w].pc = "idle"
    /\ call' = [call EXCEPT !.writers[w] =
                   [pc |-> "open", list |-> vulnerabilities,
                    text |-> TextOf(CacheData(RacePath, vulnerabilities, now)),
                    offset |-> 0]]
    /\ vulnOp' = NoVulnOp
    /\ UNCHANGED << files, stored >>
    /\ OnlyRace

\* writeFile opens the file: it is emptied
RaceOpen(w) ==
    /\ call.writers[w].pc = "open"
    /\ call' = [call EXCEPT !.writers[w].pc = "write", !.exists = TRUE,
                            !.text = << >>]
    /\ files' = [files EXCEPT ![CacheFileOf[RacePath]] = FileOfText(TRUE, << >>)]
    /\ vulnOp' = NoVulnOp
    /\ UNCHANGED stored
    /\ OnlyRace

\* one write call of writeFile: the next n units go to the writer's own
\* offset, over what is there; the last one ends cacheVulnerabilityData
RaceWriteChunk(w, n) ==
    /\ call.writers[w].pc = "write"
    /\ n \in 1..(Len(call.writers[w].text) - call.writers[w].offset)
    /\ LET writer == call.writers[w]
           end == writer.offset + n
           hole == [kind |-> "hole", index |-> 0, data |-> writer.text[1].data]
           size == IF Len(call.text) > end THEN Len(call.text) ELSE end
           text == [i \in 1..size |->
                      IF i > writer.offset /\ i <= end THEN writer.text[i]
                      ELSE IF i <= Len(call.text) THEN call.text[i]
                      ELSE hole]
       IN  /\ call' = [call EXCEPT !.text = text,
                                   !.writers[w].offset = end,
                                   !.writers[w].pc =
                                       IF end = Len(writer.text) THEN "closed"
                                       ELSE "write"]
           /\ files' = [files EXCEPT ![CacheFileOf[RacePath]] =
                                         FileOfText(TRUE, text)]
    /\ vulnOp' = NoVulnOp
    /\ UNCHANGED stored
    /\ OnlyRace

NextRace ==
    \/ \E w \in Writers, l \in RaceLists : RaceWrite(w, l)
    \/ \E w \in Writers : RaceOpen(w)
    \/ \E w \in Writers, n \in 1..4 : RaceWriteChunk(w, n)
    \/ \E readOk \in BOOLEAN, unlinkOk \in BOOLEAN : VulnRead(RacePath, readOk, unlinkOk)

-----------------------------------------------------------------------------
(* Errors                                                                  *)

\* An error value: its class, its ExtensionError fields, and for the
\* composite analysis error the two causes embedded in technicalDetails.
NoText == << "", "" >>
NoError == [kind |-> "none", code |-> "", recoverable |-> FALSE, category |-> "",
            message |-> "", primary |-> NoText, fallback |-> NoText]

\* new DotNetCliError(code, userMessage, technicalDetails, category, recoverable)
CreateDotNetError(code, message, category, recoverable) ==
    [NoError EXCEPT !.kind = "DotNetCliError", !.code = code, !.message = message,
                    !.category = category, !.recoverable = recoverable]

\* new ProjectFileError(code, userMessage, technicalDetails, category, recoverable)
CreateProjectFileError(code, message, category, recoverable) ==
    [NoError EXCEPT !.kind = "ProjectFileError", !.code = code, !.message = message,
                    !.category = category, !.recoverable = recoverable]

\* new Error(message)
PlainError(message) == [NoError EXCEPT !.kind = "Error", !.message = message]

\* `${error}`: Error.prototype.toString gives "name: message"
ErrorString(e) == << e.kind, e.message >>

\* DotNetCliErrorCodes
SDK_NOT_FOUND == "DOTNET_SDK_NOT_FOUND"
PROJECT_NOT_FOUND == "DOTNET_PROJECT_NOT_FOUND"
PROJECT_INVALID == "DOTNET_PROJECT_INVALID"
LIST_PACKAGES_FAILED == "DOTNET_LIST_PACKAGES_FAILED"
VULNERABILITY_SCAN_FAILED == "DOTNET_VULNERABILITY_SCAN_FAILED"
TIMEOUT == "DOTNET_COMMAND_TIMEOUT"
PERMISSION_DENIED == "DOTNET_PERMISSION_DENIED"
NETWORK_ERROR == "DOTNET_NETWORK_ERROR"
SDK_VERSION_INCOMPATIBLE == "DOTNET_SDK_VERSION_INCOMPATIBLE"
RESTORE_FAILED == "DOTNET_RESTORE_FAILED"

-----------------------------------------------------------------------------
(* DotNetCliService.listPackages                                           *)

\* What the code looks for in the output of a command, with includes():
\*   "noproject"  could not find project | project file does not exist
\*   "invalid"    invalid project | malformed | xml
\*   "denied"     access denied | permission denied | unauthorized
\*   "network"    one of the words of isNetworkError
\*   "timeout"    timeout | timed out | etimedout
\*   "notfound"   one of the words of isCommandNotFoundError
Phrases == { "noproject", "invalid", "denied", "network", "timeout", "notfound" }

\* A NuGetPackage.  A framework name is a sequence of characters; the
\* absent (undefined) framework is << >>, the absent source is "".
Package(id, version, resolved, isTransitive, depth, framework, source) ==
    [id |-> id, version |-> version, resolved |-> resolved,
     isTransitive |-> isTransitive, depth |-> depth, framework |-> framework,
     source |-> source, isDevelopmentDependency |-> FALSE,
     hasVulnerabilities |-> FALSE, vulnerabilities |-> << >>]

\* a || b for strings: "" is the absent or empty value
Or(a, b) == IF a # "" THEN a ELSE b

\* a || b for sequences of characters
OrChars(a, b) == IF a # << >> THEN a ELSE b

Unknown == << "u","n","k","n","o","w","n" >>

\* the two inner loops of parseJsonOutput, for one framework
RECURSIVE TopLevelOf(_, _)
TopLevelOf(entries, frameworkName) ==
    IF entries = << >> THEN << >>
    ELSE LET pkg == Head(entries)
         IN  (IF pkg.id = "" THEN << >>
              ELSE << Package(pkg.id,
                              Or(pkg.requestedVersion, Or(pkg.resolvedVersion, "unknown")),
                              pkg.resolvedVersion, FALSE, 0, frameworkName, "") >>)
             \o TopLevelOf(Tail(entries), frameworkName)

\* the transitive entries taken for direct packages
TransitiveAsTopLevel(entries, frameworkName) ==
    [i \in DOMAIN entries |->
        Package(entries[i].id, Or(entries[i].resolvedVersion, "unknown"),
                entries[i].resolvedVersion, FALSE, 0, frameworkName, "")]

RECURSIVE TransitiveOf(_, _)
TransitiveOf(entries, frameworkName) ==
    IF entries = << >> THEN << >>
    ELSE LET pkg == Head(entries)
         IN  (IF pkg.id = "" THEN << >>
              ELSE << Package(pkg.id, Or(pkg.resolvedVersion, "unknown"),
                              pkg.resolvedVersion, TRUE, 1, frameworkName, "") >>)
             \o TransitiveOf(Tail(entries), frameworkName)

\* the loop over the frameworks of all projects
RECURSIVE FrameworksOf(_)
FrameworksOf(frameworks) ==
    IF frameworks = << >> THEN << >>
    ELSE LET framework == Head(frameworks)
             frameworkName == OrChars(framework.framework, Unknown)
         IN  TopLevelOf(framework.topLevelPackages, frameworkName)
             \o TransitiveOf(framework.transitivePackages, frameworkName)
             \o FrameworksOf(Tail(frameworks))

\* Remove duplicate packages (same id and version), keeping the first
RECURSIVE DedupFrom(_, _)
DedupFrom(seen, packages) ==
    IF packages = << >> THEN << >>
    ELSE LET pkg == Head(packages)
             key == pkg.id \o "@" \o pkg.version
         IN  IF key \in seen THEN DedupFrom(seen, Tail(packages))
             ELSE << pkg >> \o DedupFrom(seen \cup { key }, Tail(packages))

\* ProjectFileParser.deduplicatePackages
DeduplicatePackages(packages) == DedupFrom({ }, packages)

\* parseJsonOutput: stdout is empty, text that is no JSON, or a document
\* given as the frameworks of its projects in order
ParseJsonOutput(stdout) ==
    CASE stdout.kind = "empty" -> [threw |-> FALSE, packages |-> << >>]
      [] stdout.kind = "text"  -> [threw |-> TRUE, packages |-> << >>]
      [] OTHER -> [threw |-> FALSE, packages |-> FrameworksOf(stdout.frameworks)]

\* handleListPackagesError: the error thrown for a non-zero exit
HandleListPackagesError(phrases) ==
    IF "noproject" \in phrases
    THEN CreateDotNetError(PROJECT_NOT_FOUND, "Project file not found", "validation", FALSE)
    ELSE IF "invalid" \in phrases
    THEN CreateDotNetError(PROJECT_INVALID, "Invalid or corrupted project file",
                           "validation", TRUE)
    ELSE IF "denied" \in phrases
    THEN CreateDotNetError(PERMISSION_DENIED, "Permission denied accessing project",
                           "system", TRUE)
    ELSE IF "network" \in phrases
    THEN CreateDotNetError(NETWORK_ERROR, "Network error while listing packages",
                           "system", TRUE)
    ELSE CreateDotNetError(LIST_PACKAGES_FAILED, "Failed to list packages (exit)",
                           "analysis", TRUE)

\* the catch block of listPackages for an error that is no DotNetCliError;
\* the error's text quotes the start of the output
ClassifyListFailure(phrases) ==
    IF "timeout" \in phrases
    THEN CreateDotNetError(TIMEOUT, "The package listing operation timed out", "system", TRUE)
    ELSE IF "notfound" \in phrases
    THEN CreateDotNetError(SDK_NOT_FOUND, "The .NET SDK is not installed", "system", FALSE)
    ELSE CreateDotNetError(LIST_PACKAGES_FAILED, "Failed to list packages (unexpected)",
                           "analysis", TRUE)

\* listPackages(projectPath, {includeTransitive, format: 'json'}) for what
\* executeCommand returned: [ok, packages, error]
ListPackages(projectPath, exec) ==
    IF projectPath = ""
    THEN [ok |-> FALSE, packages |-> << >>,
          error |-> CreateDotNetError(PROJECT_INVALID, "Invalid project path provided",
                                      "validation", FALSE)]
    ELSE IF exec.exitCode # 0
    THEN [ok |-> FALSE, packages |-> << >>, error |-> HandleListPackagesError(exec.phrases)]
    ELSE LET parsed == ParseJsonOutput(exec.stdout)
         IN  IF parsed.threw
             THEN [ok |-> FALSE, packages |-> << >>,
                   error |-> ClassifyListFailure(exec.phrases)]
             ELSE [ok |-> TRUE, packages |-> parsed.packages, error |-> NoError]

-----------------------------------------------------------------------------
(* ProjectFileParser                                                       *)

\* ProjectFileErrorCodes
FILE_NOT_FOUND == "PROJECT_FILE_NOT_FOUND"
FILE_NOT_READABLE == "PROJECT_FILE_NOT_READABLE"
FILE_EMPTY == "PROJECT_FILE_EMPTY"
FILE_TOO_LARGE == "PROJECT_FILE_TOO_LARGE"
INVALID_XML == "PROJECT_FILE_INVALID_XML"
INVALID_FORMAT == "PROJECT_FILE_INVALID_FORMAT"
UNSUPPORTED_TYPE == "PROJECT_FILE_UNSUPPORTED_TYPE"
CORRUPTED == "PROJECT_FILE_CORRUPTED"
FILE_PERMISSION_DENIED == "PROJECT_FILE_PERMISSION_DENIED"
ENCODING_ERROR == "PROJECT_FILE_ENCODING_ERROR"
PACKAGES_CONFIG_ERROR == "PACKAGES_CONFIG_ERROR"

(* A file as the parser meets it:                                          *)
(*   stat     "ok" or the code of the error of fs.promises.stat            *)
(*   isFile   stats.isFile()                                               *)
(*   size     "zero", "normal" or "huge" (more than 50MB)                  *)
(*   access   "ok" or the code of the error of access(R_OK)                *)
(*   read     "ok" or the code of the error of readFile                    *)
(*   length   of the trimmed content: "empty", "short" (under 10), "ok"    *)
(*   hasProjectTag   the content includes "<Project" or "<project"         *)
(*   parse    what xml2js does with the content: "ok", "null" (no          *)
(*            object), "xmlError" (an error whose message includes "XML")  *)
(*            or "error"                                                   *)
(*   xml      the parsed document                                          *)
(* The file does not change while one call reads it.                       *)

\* a validation that goes from stat straight to the read permission,
\* without looking at the size
ValidateFileAccessNoSizeCheck(file) ==
    IF file.stat = "ENOENT" \/ (file.stat = "ok" /\ file.access = "ENOENT")
    THEN CreateProjectFileError(FILE_NOT_FOUND, "Project file not found", "validation", FALSE)
    ELSE IF file.stat # "ok" \/ file.access # "ok"
    THEN CreateProjectFileError(FILE_NOT_READABLE, "Cannot access project file", "system", TRUE)
    ELSE NoError

\* validateFileAccessWithDetails: the error it throws, or NoError
ValidateFileAccessWithDetails(file) ==
    LET fsError(code) ==
            IF code = "ENOENT"
            THEN CreateProjectFileError(FILE_NOT_FOUND, "Project file not found",
                                        "validation", FALSE)
            ELSE IF code \in { "EACCES", "EPERM" }
            THEN CreateProjectFileError(FILE_PERMISSION_DENIED,
                                        "Permission denied accessing project file",
                                        "system", TRUE)
            ELSE CreateProjectFileError(FILE_NOT_READABLE, "Cannot access project file",
                                        "system", TRUE)
    IN  IF file.stat # "ok" THEN fsError(file.stat)
        ELSE IF ~file.isFile
        THEN CreateProjectFileError(INVALID_FORMAT, "Path is not a file", "validation", FALSE)
        ELSE IF file.size = "huge"
        THEN CreateProjectFileError(FILE_TOO_LARGE, "Project file is too large to process",
                                    "validation", FALSE)
        ELSE IF file.size = "zero"
        THEN CreateProjectFileError(FILE_EMPTY, "Project file is empty", "validation", TRUE)
        ELSE IF file.access # "ok" THEN fsError(file.access)
        ELSE NoError

\* readProjectFileWithValidation: the error it throws, or NoError
ReadProjectFileWithValidation(file) ==
    IF file.read = "EILSEQ"
    THEN CreateProjectFileError(ENCODING_ERROR, "Project file has invalid encoding",
                                "validation", TRUE)
    ELSE IF file.read # "ok"
    THEN CreateProjectFileError(FILE_NOT_READABLE, "Failed to read project file",
                                "system", TRUE)
    ELSE IF file.length = "empty"
    THEN CreateProjectFileError(FILE_EMPTY, "Project file is empty", "validation", TRUE)
    ELSE IF file.length = "short"
    THEN CreateProjectFileError(CORRUPTED, "Project file appears to be corrupted or incomplete",
                                "validation", TRUE)
    ELSE IF ~file.hasProjectTag
    THEN CreateProjectFileError(INVALID_FORMAT,
                                "File does not appear to be a valid .NET project file",
                                "validation", FALSE)
    ELSE NoError

\* parseXmlWithErrorHandling: the error it throws, or NoError
ParseXmlWithErrorHandling(file) ==
    CASE file.parse = "ok" -> NoError
      [] file.parse = "null" ->
            CreateProjectFileError(INVALID_XML, "Invalid XML structure in project file",
                                   "validation", TRUE)
      [] file.parse = "xmlError" ->
            CreateProjectFileError(INVALID_XML, "Invalid XML in project file",
                                   "validation", TRUE)
      [] OTHER ->
            CreateProjectFileError(CORRUPTED, "Failed to parse project file (xml)",
                                   "validation", TRUE)

\* String.prototype.startsWith
StartsWith(s, prefix) ==
    Len(s) >= Len(prefix) /\ SubSeq(s, 1, Len(prefix)) = prefix

\* split(';')
RECURSIVE SplitFrom(_, _)
SplitFrom(s, current) ==
    IF s = << >> THEN << current >>
    ELSE IF Head(s) = ";" THEN << current >> \o SplitFrom(Tail(s), << >>)
    ELSE SplitFrom(Tail(s), Append(current, Head(s)))

Split(s) == SplitFrom(s, << >>)

\* .map(f => f.trim()).filter(f => f.length > 0)
RECURSIVE TrimmedNonEmpty(_)
TrimmedNonEmpty(parts) ==
    IF parts = << >> THEN << >>
    ELSE (IF Trim(Head(parts)) = << >> THEN << >> ELSE << Trim(Head(parts)) >>)
         \o TrimmedNonEmpty(Tail(parts))

\* [...new Set(frameworks)]
RECURSIVE UniqueFrom(_, _)
UniqueFrom(seen, items) ==
    IF items = << >> THEN << >>
    ELSE IF Head(items) \in seen THEN UniqueFrom(seen, Tail(items))
    ELSE << Head(items) >> \o UniqueFrom(seen \cup { Head(items) }, Tail(items))

\* the loop of validateProjectFile over the property groups; an element
\* is the sequence of the texts of its occurrences, << >> when absent, and
\* xml2js hands the texts over trimmed
RECURSIVE FrameworksOfGroups(_)
FrameworksOfGroups(propertyGroups) ==
    IF propertyGroups = << >> THEN << >>
    ELSE LET propGroup == Head(propertyGroups)
             framework == IF propGroup.TargetFramework = << >> THEN << >>
                          ELSE Trim(propGroup.TargetFramework[1])
             frameworksStr == IF propGroup.TargetFrameworks = << >> THEN << >>
                              ELSE Trim(propGroup.TargetFrameworks[1])
         IN  (IF framework # << >> THEN << Trim(framework) >> ELSE << >>)
             \o (IF frameworksStr # << >>
                 THEN TrimmedNonEmpty(Split(frameworksStr)) ELSE << >>)
             \o FrameworksOfGroups(Tail(propertyGroups))

\* isModernProjectFormat
IsModernProjectFormat(xml) ==
    /\ xml.root = "Project"
    /\ xml.hasAttributes
    /\ xml.Sdk # ""

\* isLegacyProjectFormat: reading Project.$.Sdk of a root without
\* attributes throws a TypeError
IsLegacyProjectFormat(xml) ==
    IF xml.root # "Project" THEN [threw |-> FALSE, value |-> FALSE]
    ELSE IF ~xml.hasAttributes THEN [threw |-> TRUE, value |-> FALSE]
    ELSE [threw |-> FALSE, value |-> xml.Sdk = "" /\ (xml.xmlns # "" \/ xml.xsi # "")]

Net(d) == << "n", "e", "t", d >>
NetCoreApp == << "n","e","t","c","o","r","e","a","p","p" >>
NetStandard == << "n","e","t","s","t","a","n","d","a","r","d" >>

\* the refinement of the project type by the frameworks
RefineProjectType(projectType, frameworks) ==
    LET some(prefixes) ==
            \E i \in DOMAIN frameworks : \E p \in prefixes : StartsWith(frameworks[i], p)
    IN  IF frameworks = << >> THEN projectType
        ELSE IF some({ Net("5"), Net("6"), Net("7"), Net("8"), Net("9") }) THEN "dotnet-5+"
        ELSE IF some({ NetCoreApp, NetStandard }) THEN "dotnet-core"
        ELSE IF some({ Net("4"), Net("3"), Net("2") }) THEN "dotnet-framework"
        ELSE projectType

UnknownProject == [projectType |-> "unknown", frameworks |-> << >>]

\* validateProjectFile: the project type and the frameworks of its result
ValidateProjectFile(file) ==
    IF file.access # "ok" \/ file.stat # "ok" THEN UnknownProject
    ELSE IF file.read # "ok" THEN UnknownProject
    ELSE IF file.length # "ok" THEN UnknownProject
    ELSE IF file.parse # "ok" THEN UnknownProject
    ELSE IF file.xml.root # "Project" THEN UnknownProject
    ELSE IF ~IsModernProjectFormat(file.xml) /\ IsLegacyProjectFormat(file.xml).threw
    THEN UnknownProject
    ELSE LET projectType == IF IsModernProjectFormat(file.xml) THEN "dotnet-core"
                            ELSE IF IsLegacyProjectFormat(file.xml).value
                            THEN "dotnet-framework" ELSE "unknown"
             frameworks == FrameworksOfGroups(file.xml.PropertyGroup)
         IN  [projectType |-> RefineProjectType(projectType, frameworks),
              frameworks |-> UniqueFrom({ }, frameworks)]

Net48 == << "n","e","t","4","8" >>

\* a parsePackageReference that reads the Version attribute only
ParsePackageReferenceAttributeOnly(packageRef, frameworks) ==
    IF ~packageRef.hasAttributes \/ packageRef.Include = "" \/ packageRef.Version = ""
    THEN << >>
    ELSE << Package(packageRef.Include, packageRef.Version, packageRef.Version, FALSE, 0,
                    IF frameworks # << >> THEN frameworks[1] ELSE << >>,
                    "project-file") >>

\* parsePackageReference: the package of a PackageReference element in a
\* one-element sequence, or << >> for null
ParsePackageReference(packageRef, frameworks) ==
    IF ~packageRef.hasAttributes \/ packageRef.Include = "" THEN << >>
    ELSE LET version == Or(packageRef.Version, packageRef.VersionChild)
         IN  IF version = "" THEN << >>
             ELSE << Package(packageRef.Include, version, version, FALSE, 0,
                             IF frameworks # << >> THEN frameworks[1] ELSE << >>,
                             "project-file") >>

\* parseReference: hintId and hintVersion are what the two regular
\* expressions capture from the HintPath ("" where one does not match or
\* there is no HintPath)
ParseReference(reference) ==
    IF ~reference.hasAttributes \/ reference.Include = "" THEN << >>
    ELSE IF reference.hintId = "" THEN << >>
    ELSE LET version == Or(reference.hintVersion, "unknown")
         IN  << Package(reference.hintId, version, version, FALSE, 0, << >>,
                        "project-file") >>

RECURSIVE PackageReferencesOf(_, _)
PackageReferencesOf(packageRefs, frameworks) ==
    IF packageRefs = << >> THEN << >>
    ELSE ParsePackageReference(Head(packageRefs), frameworks)
         \o PackageReferencesOf(Tail(packageRefs), frameworks)

RECURSIVE ReferencesOf(_)
ReferencesOf(references) ==
    IF references = << >> THEN << >>
    ELSE ParseReference(Head(references)) \o ReferencesOf(Tail(references))

\* parseModernProjectFile, the loop over the item groups
RECURSIVE ModernItemGroups(_, _)
ModernItemGroups(itemGroups, frameworks) ==
    IF itemGroups = << >> THEN << >>
    ELSE PackageReferencesOf(Head(itemGroups).PackageReference, frameworks)
         \o ModernItemGroups(Tail(itemGroups), frameworks)

ParseModernProjectFile(xml, frameworks) ==
    IF xml.root # "Project" THEN << >> ELSE ModernItemGroups(xml.ItemGroup, frameworks)

\* parseLegacyProjectFile, the loop over the item groups
RECURSIVE LegacyItemGroups(_)
LegacyItemGroups(itemGroups) ==
    IF itemGroups = << >> THEN << >>
    ELSE PackageReferencesOf(Head(itemGroups).PackageReference, << Net48 >>)
         \o ReferencesOf(Head(itemGroups).Reference)
         \o LegacyItemGroups(Tail(itemGroups))

ParseLegacyProjectFile(xml) ==
    IF xml.root # "Project" THEN << >> ELSE LegacyItemGroups(xml.ItemGroup)

\* the loop of parsePackagesConfig over the package elements
RECURSIVE ConfigPackagesOf(_)
ConfigPackagesOf(elements) ==
    IF elements = << >> THEN << >>
    ELSE LET pkg == Head(elements)
         IN  (IF ~pkg.hasAttributes \/ pkg.id = "" \/ pkg.version = "" THEN << >>
              ELSE << [Package(pkg.id, pkg.version, pkg.version, FALSE, 0,
                               pkg.targetFramework, "packages-config")
                       EXCEPT !.isDevelopmentDependency =
                                  (pkg.developmentDependency = "true")] >>)
             \o ConfigPackagesOf(Tail(elements))

\* a parser of packages.config that raises nothing and returns whatever
\* package elements the file has
ParsePackagesConfigLenient(config) ==
    [threw |-> FALSE, error |-> NoError,
     packages |-> IF config.access = "ok" /\ config.xml.root = "packages"
                  THEN ConfigPackagesOf(config.xml.package) ELSE << >>]

\* parsePackagesConfig for the packages.config next to the project:
\* [threw, packages, error]
ParsePackagesConfig(config) ==
    IF config.access # "ok" THEN [threw |-> FALSE, packages |-> << >>, error |-> NoError]
    ELSE IF ReadProjectFileWithValidation(config) # NoError
    THEN [threw |-> TRUE, packages |-> << >>,
          error |-> ReadProjectFileWithValidation(config)]
    ELSE IF ParseXmlWithErrorHandling(config) # NoError
    THEN [threw |-> TRUE, packages |-> << >>, error |-> ParseXmlWithErrorHandling(config)]
    ELSE [threw |-> FALSE, error |-> NoError,
          packages |-> IF config.xml.root = "packages"
                       THEN ConfigPackagesOf(config.xml.package) ELSE << >>]

\* the catch block of parseProjectFile for an error that is no ProjectFileError
WrapUnknownError ==
    CreateProjectFileError(CORRUPTED, "Failed to parse project file", "validation", TRUE)

\* parseProjectFile for the project file and the packages.config of its
\* directory: [ok, packages, error]
ParseProjectFile(file, config) ==
    LET fail(error) == [ok |-> FALSE, packages |-> << >>, error |-> error]
        validation == ValidateProjectFile(file)
        withConfig(packages) ==
            IF validation.projectType = "dotnet-framework"
                   /\ ~ParsePackagesConfig(config).threw
            THEN packages \o ParsePackagesConfig(config).packages
            ELSE packages
        done(packages) ==
            [ok |-> TRUE, packages |-> DeduplicatePackages(withConfig(packages)),
             error |-> NoError]
    IN  IF ValidateFileAccessWithDetails(file) # NoError
        THEN fail(ValidateFileAccessWithDetails(file))
        ELSE IF ReadProjectFileWithValidation(file) # NoError
        THEN fail(ReadProjectFileWithValidation(file))
        ELSE IF ParseXmlWithErrorHandling(file) # NoError
        THEN fail(ParseXmlWithErrorHandling(file))
        ELSE IF IsModernProjectFormat(file.xml)
        THEN done(ParseModernProjectFile(file.xml, validation.frameworks))
        ELSE IF IsLegacyProjectFormat(file.xml).threw THEN fail(WrapUnknownError)
        ELSE IF IsLegacyProjectFormat(file.xml).value
        THEN done(ParseLegacyProjectFile(file.xml))
        ELSE fail(CreateProjectFileError(UNSUPPORTED_TYPE, "Unsupported project file format",
                                         "validation", FALSE))

\* what parseProjectFile asks of the file system and of xml2js for the
\* project file, in order, up to its call of validateProjectFile
ParseProjectFileSteps(file) ==
    << "stat" >>
    \o (IF file.stat = "ok" /\ file.isFile /\ file.size = "normal"
        THEN << "access" >> ELSE << >>)
    \o (IF ValidateFileAccessWithDetails(file) # NoError THEN << >>
        ELSE << "readFile" >>
             \o (IF ReadProjectFileWithValidation(file) # NoError THEN << >>
                 ELSE << "parseStringPromise" >>
                      \o (IF ParseXmlWithErrorHandling(file) # NoError THEN << >>
                          ELSE << "validateProjectFile" >>)))

-----------------------------------------------------------------------------
(* Vulnerability scan                                                      *)

\* the map and filter of parseVulnerablePackagesOutput over the
\* vulnerabilities of one package; generated is the identifier that
\* Date.now() and Math.random() give this entry when it has none
RECURSIVE VulnerabilitiesOf(_)
VulnerabilitiesOf(entries) ==
    IF entries = << >> THEN << >>
    ELSE LET vuln == Head(entries)
         IN  (IF ~vuln.isObject THEN << >>
              ELSE << [id |-> Or(vuln.advisoryUrl, Or(vuln.id, vuln.generated)),
                       severity |-> NormalizeSeverity(vuln.severity),
                       title |-> Or(vuln.title, "Unknown vulnerability"),
                       advisoryUrl |-> vuln.advisoryUrl] >>)
             \o VulnerabilitiesOf(Tail(entries))

RECURSIVE VulnerablePackagesOf(_, _)
VulnerablePackagesOf(entries, frameworkName) ==
    IF entries = << >> THEN << >>
    ELSE LET vulnPkg == Head(entries)
         IN  (IF vulnPkg.id = "" THEN << >>
              ELSE << [Package(vulnPkg.id,
                               Or(vulnPkg.resolvedVersion,
                                  Or(vulnPkg.requestedVersion, "unknown")),
                               vulnPkg.resolvedVersion, vulnPkg.isTransitive,
                               IF vulnPkg.isTransitive THEN 1 ELSE 0, frameworkName, "")
                       EXCEPT !.hasVulnerabilities = TRUE,
                              !.vulnerabilities = VulnerabilitiesOf(vulnPkg.vulnerabilities)] >>)
             \o VulnerablePackagesOf(Tail(entries), frameworkName)

RECURSIVE VulnerableFrameworksOf(_)
VulnerableFrameworksOf(frameworks) ==
    IF frameworks = << >> THEN << >>
    ELSE VulnerablePackagesOf(Head(frameworks).vulnerablePackages,
                              OrChars(Head(frameworks).framework, Unknown))
         \o VulnerableFrameworksOf(Tail(frameworks))

\* parseVulnerablePackagesOutput
ParseVulnerablePackagesOutput(stdout) ==
    CASE stdout.kind = "empty" -> [threw |-> FALSE, packages |-> << >>]
      [] stdout.kind = "text"  -> [threw |-> TRUE, packages |-> << >>]
      [] OTHER -> [threw |-> FALSE, packages |-> VulnerableFrameworksOf(stdout.frameworks)]

\* a handler for which every failure that it does not recognise is a
\* clean result
HandleScanErrorLenient(phrases) ==
    IF "noproject" \in phrases
    THEN CreateDotNetError(PROJECT_NOT_FOUND, "Project file not found", "validation", FALSE)
    ELSE NoError

\* handleVulnerabilityScanError: NoError where the output says that there
\* are no vulnerable packages ("clean") and the result is the empty list
HandleVulnerabilityScanError(phrases) ==
    IF "clean" \in phrases THEN NoError
    ELSE IF "noproject" \in phrases
    THEN CreateDotNetError(PROJECT_NOT_FOUND, "Project file not found", "validation", FALSE)
    ELSE IF "network" \in phrases
    THEN CreateDotNetError(NETWORK_ERROR, "Network error during vulnerability scan",
                           "system", TRUE)
    ELSE IF "denied" \in phrases
    THEN CreateDotNetError(PERMISSION_DENIED, "Permission denied accessing project",
                           "system", TRUE)
    ELSE CreateDotNetError(VULNERABILITY_SCAN_FAILED, "Failed to scan for vulnerabilities",
                           "analysis", TRUE)

\* the catch block of listVulnerablePackages for an error that is no
\* DotNetCliError
ClassifyScanFailure(phrases) ==
    IF "timeout" \in phrases
    THEN CreateDotNetError(TIMEOUT, "The vulnerability scan timed out", "system", TRUE)
    ELSE IF "network" \in phrases
    THEN CreateDotNetError(NETWORK_ERROR, "Network error during vulnerability scan (caught)",
                           "system", TRUE)
    ELSE IF "notfound" \in phrases
    THEN CreateDotNetError(SDK_NOT_FOUND, "The .NET SDK is not installed (scan)",
                           "system", FALSE)
    ELSE CreateDotNetError(VULNERABILITY_SCAN_FAILED,
                           "Failed to scan for vulnerable packages", "analysis", TRUE)

\* listVulnerablePackages: [ok, packages, error]
ListVulnerablePackages(projectPath, exec) ==
    IF projectPath = ""
    THEN [ok |-> FALSE, packages |-> << >>,
          error |-> CreateDotNetError(PROJECT_INVALID,
                                      "Invalid project path provided for vulnerability scanning",
                                      "validation", FALSE)]
    ELSE IF exec.exitCode # 0
    THEN [ok |-> HandleVulnerabilityScanError(exec.phrases) = NoError,
          packages |-> << >>, error |-> HandleVulnerabilityScanError(exec.phrases)]
    ELSE LET parsed == ParseVulnerablePackagesOutput(exec.stdout)
         IN  IF parsed.threw
             THEN [ok |-> FALSE, packages |-> << >>,
                   error |-> ClassifyScanFailure(exec.phrases)]
             ELSE [ok |-> TRUE, packages |-> parsed.packages, error |-> NoError]

\* VulnerabilityScanner.scanProject: the scanner's own failure, or the
\* result of the vulnerability listing
ScanProject(projectPath, scan) ==
    IF scan.failed
    THEN [ok |-> FALSE, packages |-> << >>, error |-> PlainError("Vulnerability scan failed")]
    ELSE ListVulnerablePackages(projectPath, scan.exec)

\* getVersion for what `dotnet --version` returned: the trimmed output,
\* or "" where it throws
GetVersion(exec) ==
    IF exec.exitCode # 0 THEN "" ELSE exec.version

\* the error getVersion throws, or NoError
GetVersionError(exec) ==
    IF exec.exitCode # 0
    THEN CreateDotNetError(SDK_NOT_FOUND, "The .NET SDK is not installed or not accessible",
                           "system", FALSE)
    ELSE IF exec.version = ""
    THEN CreateDotNetError(SDK_VERSION_INCOMPATIBLE, "Unable to determine .NET SDK version",
                           "system", FALSE)
    ELSE NoError

\* handleRestoreError; "source" is: unable to load the service index |
\* package source
HandleRestoreError(phrases) ==
    IF "noproject" \in phrases
    THEN CreateDotNetError(PROJECT_NOT_FOUND, "Project file not found", "validation", FALSE)
    ELSE IF "invalid" \in phrases
    THEN CreateDotNetError(PROJECT_INVALID, "Invalid or corrupted project file",
                           "validation", TRUE)
    ELSE IF "network" \in phrases
    THEN CreateDotNetError(NETWORK_ERROR, "Network error during package restore",
                           "system", TRUE)
    ELSE IF "denied" \in phrases
    THEN CreateDotNetError(PERMISSION_DENIED, "Permission denied during package restore",
                           "system", TRUE)
    ELSE IF "source" \in phrases
    THEN CreateDotNetError(NETWORK_ERROR, "Unable to access package sources", "system", TRUE)
    ELSE CreateDotNetError(RESTORE_FAILED, "Failed to restore packages", "analysis", TRUE)

\* restorePackages: the error it throws, or NoError
RestorePackages(projectPath, exec) ==
    IF projectPath = ""
    THEN CreateDotNetError(PROJECT_INVALID, "Invalid project path provided for package restore",
                           "validation", FALSE)
    ELSE IF exec.exitCode # 0 THEN HandleRestoreError(exec.phrases)
    ELSE NoError

-----------------------------------------------------------------------------
(* CommandExecutor.executeCommand                                          *)

(* How the promise of execAsync settles:                                   *)
(*   cause     what happened to the command: "exit" (it ran and exited),   *)
(*             "timeout" (killed when the timeout ran out), "spawn" (no    *)
(*             process could be started), "call" (exec rejected the call)  *)
(*   resolved  the promise is fulfilled with {stdout, stderr}              *)
(*   hasOutput the rejection carries stdout and stderr                     *)
(*   code      the code of the rejection: the exit status, null after a    *)
(*             kill, or the name of a system error                         *)
(*   stdout, stderr, message   texts, as the sets of phrases in them       *)

\* err.code ?? 1
CodeOrOne(code) == IF code.type \in { "null", "undefined" } THEN JsNumber(1) ELSE code

\* executeCommand: the CommandResult returned (it raises nothing)
ExecuteCommand(settled) ==
    IF settled.resolved
    THEN [threw |-> FALSE, stdout |-> settled.stdout, stderr |-> settled.stderr,
          exitCode |-> JsNumber(0)]
    ELSE [threw |-> FALSE,
          stdout |-> IF settled.hasOutput THEN settled.stdout ELSE { },
          stderr |-> IF settled.hasOutput THEN settled.stderr ELSE settled.message,
          exitCode |-> CodeOrOne(settled.code)]

-----------------------------------------------------------------------------
(* NuGetDependencyProvider                                                 *)

\* a merge into every package that has the id of the scan entry
RECURSIVE MergeVulnerabilityDataEvery(_, _)
MergeVulnerabilityDataEvery(packages, vulnerablePackages) ==
    IF vulnerablePackages = << >> THEN packages
    ELSE LET vulnPkg == Head(vulnerablePackages)
             merged == [i \in DOMAIN packages |->
                           IF packages[i].id = vulnPkg.id /\ vulnPkg.hasVulnerabilities
                           THEN [packages[i] EXCEPT
                                    !.hasVulnerabilities = TRUE,
                                    !.vulnerabilities = vulnPkg.vulnerabilities]
                           ELSE packages[i]]
         IN  MergeVulnerabilityDataEvery(merged, Tail(vulnerablePackages))

\* mergeVulnerabilityData
RECURSIVE MergeVulnerabilityData(_, _)
MergeVulnerabilityData(packages, vulnerablePackages) ==
    IF vulnerablePackages = << >> THEN packages
    ELSE LET vulnPkg == Head(vulnerablePackages)
             found == { i \in DOMAIN packages : packages[i].id = vulnPkg.id }
             first == CHOOSE i \in found : \A j \in found : i <= j
             merged == IF found # { } /\ vulnPkg.hasVulnerabilities
                       THEN [packages EXCEPT ![first] =
                                [@ EXCEPT !.hasVulnerabilities = TRUE,
                                          !.vulnerabilities = vulnPkg.vulnerabilities]]
                       ELSE packages
         IN  MergeVulnerabilityData(merged, Tail(vulnerablePackages))

\* the enrichment of analyzeDependencies without its catch: an empty list
\* where the scan threw
EnrichOrNothing(packages, scanned) ==
    IF scanned.ok THEN MergeVulnerabilityData(packages, scanned.packages) ELSE << >>

\* the enrichment of analyzeDependencies: the try around scanProject and
\* the merge, and the catch that swallows
Enrich(packages, scanned) ==
    IF scanned.ok THEN MergeVulnerabilityData(packages, scanned.packages) ELSE packages

\* the vulnerabilities of all packages in order
RECURSIVE AllVulnerabilities(_)
AllVulnerabilities(packages) ==
    IF packages = << >> THEN << >>
    ELSE (IF Head(packages).hasVulnerabilities THEN Head(packages).vulnerabilities
          ELSE << >>)
         \o AllVulnerabilities(Tail(packages))

\* the characters of a severity of the enum
SeverityChars(severity) ==
    CASE severity = "Critical" -> << "C","r","i","t","i","c","a","l" >>
      [] severity = "High"     -> << "H","i","g","h" >>
      [] severity = "Moderate" -> << "M","o","d","e","r","a","t","e" >>
      [] severity = "Low"      -> << "L","o","w" >>

\* countVulnerabilities
CountVulnerabilities(packages) ==
    LET all == AllVulnerabilities(packages)
        count(word) == Cardinality({ i \in DOMAIN all :
                           ToLowerCase(SeverityChars(all[i].severity)) = word })
    IN  [critical |-> count(W_critical), high |-> count(W_high),
         moderate |-> count(W_moderate), low |-> count(W_low), total |-> Len(all)]

\* a composite error that embeds the toolchain error only
CreateAnalysisErrorPrimaryOnly(primaryError, fallbackError) ==
    [NoError EXCEPT !.kind = "DependencyAnalysisError",
                    !.code = "DEPENDENCY_ANALYSIS_FAILED",
                    !.message = "Failed to analyze project dependencies",
                    !.category = "analysis", !.recoverable = FALSE,
                    !.primary = ErrorString(primaryError)]

\* createAnalysisError
CreateAnalysisError(primaryError, fallbackError) ==
    [NoError EXCEPT !.kind = "DependencyAnalysisError",
                    !.code = "DEPENDENCY_ANALYSIS_FAILED",
                    !.message = "Failed to analyze project dependencies",
                    !.category = "analysis", !.recoverable = FALSE,
                    !.primary = ErrorString(primaryError),
                    !.fallback = ErrorString(fallbackError)]

\* a catch block that tries the fallback for every toolchain error
AttemptsFallbackIfTyped(error) == error.kind = "DotNetCliError"

\* the catch block of analyzeDependencies: whether the fallback is tried
\* for the error of listPackages
AttemptsFallback(error) ==
    IF error.kind = "DotNetCliError"
    THEN error.recoverable \/ error.code = SDK_NOT_FOUND
    ELSE TRUE

\* NuGetDependencyProvider.validateProject: the frameworks of its result.
\* Its parser does not trim and its split keeps every part.
RECURSIVE RawFrameworksOfGroups(_)
RawFrameworksOfGroups(propertyGroups) ==
    IF propertyGroups = << >> THEN << >>
    ELSE LET propGroup == Head(propertyGroups)
         IN  (IF propGroup.TargetFramework # << >>
              THEN << propGroup.TargetFramework[1] >> ELSE << >>)
             \o (IF propGroup.TargetFrameworks # << >>
                 THEN Split(propGroup.TargetFrameworks[1]) ELSE << >>)
             \o RawFrameworksOfGroups(Tail(propertyGroups))

ValidateProject(file) ==
    IF file.stat # "ok" THEN << >>
    ELSE IF ~file.isFile \/ file.read # "ok" \/ file.parse # "ok" THEN << >>
    ELSE IF file.xml.root # "Project" THEN << >>
    ELSE RawFrameworksOfGroups(file.xml.PropertyGroup)

\* NuGetDependencyProvider.validateProject: the project type of its result
ValidateProjectType(file) ==
    LET frameworks == ValidateProject(file)
        some(prefixes) ==
            \E i \in DOMAIN frameworks : \E p \in prefixes : StartsWith(frameworks[i], p)
    IN  IF some({ Net("5"), Net("6"), Net("7"), Net("8") }) THEN "dotnet-5+"
        ELSE IF some({ NetCoreApp, NetStandard }) THEN "dotnet-core"
        ELSE IF some({ Net("4"), Net("3") }) THEN "dotnet-framework"
        ELSE "unknown"

\* createAnalysisMetadata, once getVersion and validateProject have returned
CreateAnalysisMetadata(method, frameworks, sdkVersion, hasTransitive, hasVulnerabilityData) ==
    [analysisMethod |-> method,
     framework |-> IF frameworks # << >> THEN frameworks[1] ELSE << >>,
     sdkVersion |-> sdkVersion,
     hasTransitiveDependencies |-> hasTransitive,
     hasVulnerabilityData |-> hasVulnerabilityData]

-----------------------------------------------------------------------------
(* NuGetDependencyProvider.createGraphData                                 *)

VulnerabilityColors ==
    [Critical |-> "#8B0000", High |-> "#FF4500", Moderate |-> "#FFA500", Low |-> "#FFD700"]

PackageColors ==
    << "#1f77b4", "#ff7f0e", "#2ca02c", "#d62728", "#9467bd",
       "#8c564b", "#e377c2", "#7f7f7f", "#bcbd22", "#17becf" >>

\* the mode each operation gives createGraphData
ModeOf(operation) ==
    CASE operation = "getDependenciesWithVulnerabilities" -> "vulnerabilities"
      [] operation = "getFullDependencyGraph" -> "full"
      [] OTHER -> "dependencies"

GetHighestSeverity(vulnerabilities) ==
    LET some(severity) ==
            \E i \in DOMAIN vulnerabilities : vulnerabilities[i].severity = severity
    IN  IF some("Critical") THEN "Critical"
        ELSE IF some("High") THEN "High"
        ELSE IF some("Moderate") THEN "Moderate"
        ELSE "Low"

\* `${pkg.id}@${pkg.version}`
NodeId(pkg) == pkg.id \o "@" \o pkg.version

\* a node whose colour is taken from a cursor kept on the provider, moved
\* by every graph built
NodeOfCursor(pkg, index, mode) ==
    [id |-> pkg.id \o "@" \o pkg.version,
     name |-> pkg.id,
     version |-> pkg.version,
     group |-> IF pkg.isTransitive THEN "transitive" ELSE "direct",
     val |-> Len(pkg.vulnerabilities) + 1,
     color |-> PackageColors[((index + Cardinality({ r \in DOMAIN runs : runs[r].graphBuilt }))
                                 % Len(PackageColors)) + 1],
     vulnerabilities |-> pkg.vulnerabilities,
     isRoot |-> ~pkg.isTransitive,
     depth |-> pkg.depth]

\* a node coloured by the first vulnerability of its package, and by the
\* palette without wrapping round
NodeOfFirstSeverity(pkg, index, mode) ==
    [id |-> pkg.id \o "@" \o pkg.version,
     name |-> pkg.id,
     version |-> pkg.version,
     group |-> IF pkg.isTransitive THEN "transitive" ELSE "direct",
     val |-> Len(pkg.vulnerabilities) + 1,
     color |-> IF mode = "vulnerabilities" /\ pkg.vulnerabilities # << >>
               THEN VulnerabilityColors[pkg.vulnerabilities[1].severity]
               ELSE IF mode \in { "dependencies", "full" } /\ index < Len(PackageColors)
               THEN PackageColors[index + 1]
               ELSE "#6c757d",
     vulnerabilities |-> pkg.vulnerabilities,
     isRoot |-> ~pkg.isTransitive,
     depth |-> pkg.depth]

\* the node of the package at index (from 0) of the list
NodeOf(pkg, index, mode) ==
    [id |-> NodeId(pkg),
     name |-> pkg.id,
     version |-> pkg.version,
     group |-> IF pkg.isTransitive THEN "transitive" ELSE "direct",
     val |-> Len(pkg.vulnerabilities) + 1,
     color |-> IF mode = "vulnerabilities" /\ pkg.vulnerabilities # << >>
               THEN VulnerabilityColors[GetHighestSeverity(pkg.vulnerabilities)]
               ELSE IF mode \in { "dependencies", "full" }
               THEN PackageColors[(index % Len(PackageColors)) + 1]
               ELSE "#6c757d",
     vulnerabilities |-> pkg.vulnerabilities,
     isRoot |-> ~pkg.isTransitive,
     depth |-> pkg.depth]

\* String.prototype.includes
Includes(str, part) ==
    \E i \in 1..(Len(str) - Len(part) + 1) : SubSeq(str, i, i + Len(part) - 1) = part

\* id.split('.')[0]
FirstPart(id) ==
    LET dots == { i \in 1..Len(id) : SubSeq(id, i, i) = "." }
    IN  IF dots = { } THEN id
        ELSE SubSeq(id, 1, (CHOOSE i \in dots : \A j \in dots : i <= j) - 1)

HasCommonDependencyPattern(pkg1Id, pkg2Id) ==
    \E word \in { "EntityFramework", "AspNetCore", "Logging", "Configuration" } :
        Includes(pkg1Id, word) /\ Includes(pkg2Id, word)

\* a rule that knows the vendor only
ShouldCreateLinkSameVendor(directPkg, transitivePkg) ==
    FirstPart(directPkg.id) = FirstPart(transitivePkg.id)

ShouldCreateLink(directPkg, transitivePkg) ==
    \/ StartsWith(directPkg.id, "Microsoft.") /\ StartsWith(transitivePkg.id, "Microsoft.")
    \/ StartsWith(directPkg.id, "System.") /\ StartsWith(transitivePkg.id, "System.")
    \/ FirstPart(directPkg.id) = FirstPart(transitivePkg.id)
    \/ HasCommonDependencyPattern(directPkg.id, transitivePkg.id)

\* the second test of arePackagesRelated, on the first two parts, holds
\* only where the first parts are equal
ArePackagesRelated(pkg1, pkg2) == FirstPart(pkg1.id) = FirstPart(pkg2.id)

Link(source, target, value, color) ==
    [source |-> source, target |-> target, value |-> value, color |-> color]

DirectPackages(packages) == SelectSeq(packages, LAMBDA pkg : ~pkg.isTransitive)
TransitivePackages(packages) == SelectSeq(packages, LAMBDA pkg : pkg.isTransitive)

\* the links from one direct package, in the order of the transitive ones
RECURSIVE LinksFrom(_, _, _)
LinksFrom(directPkg, transitivePackages, mode) ==
    IF transitivePackages = << >> THEN << >>
    ELSE (IF ShouldCreateLink(directPkg, Head(transitivePackages))
          THEN << Link(NodeId(directPkg), NodeId(Head(transitivePackages)), "1",
                       IF mode = "vulnerabilities" THEN "#ff6b6b" ELSE "#999") >>
          ELSE << >>)
         \o LinksFrom(directPkg, Tail(transitivePackages), mode)

RECURSIVE DirectLinks(_, _, _)
DirectLinks(directPackages, transitivePackages, mode) ==
    IF directPackages = << >> THEN << >>
    ELSE LinksFrom(Head(directPackages), transitivePackages, mode)
         \o DirectLinks(Tail(directPackages), transitivePackages, mode)

\* the links between related transitive packages: pkg1 with those after it
RECURSIVE RelatedTo(_, _, _)
RelatedTo(pkg1, later, mode) ==
    IF later = << >> THEN << >>
    ELSE (IF ArePackagesRelated(pkg1, Head(later))
          THEN << Link(NodeId(pkg1), NodeId(Head(later)), "0.5",
                       IF mode = "vulnerabilities" THEN "#ff6b6b" ELSE "#ccc") >>
          ELSE << >>)
         \o RelatedTo(pkg1, Tail(later), mode)

RECURSIVE TransitiveLinks(_, _)
TransitiveLinks(transitivePackages, mode) ==
    IF transitivePackages = << >> THEN << >>
    ELSE RelatedTo(Head(transitivePackages), Tail(transitivePackages), mode)
         \o TransitiveLinks(Tail(transitivePackages), mode)

\* Math.ceil(a / b) for b > 0
Ceil(a, b) == (a + b - 1) \div b

Min(a, b) == IF a < b THEN a ELSE b

\* a fallback whose slices have the size of the rounded-down share
RECURSIVE FallbackFromFloor(_, _, _, _)
FallbackFromFloor(index, directPackages, transitivePackages, mode) ==
    IF index >= Len(directPackages) THEN << >>
    ELSE LET share == Len(transitivePackages) \div Len(directPackages)
             startIndex == index * share
             endIndex == Min(startIndex + share, Len(transitivePackages))
         IN  [k \in 1..(endIndex - startIndex) |->
                 Link(NodeId(directPackages[index + 1]),
                      NodeId(transitivePackages[startIndex + k]), "1",
                      IF mode = "vulnerabilities" THEN "#ff6b6b" ELSE "#999")]
             \o FallbackFromFloor(index + 1, directPackages, transitivePackages, mode)

\* createFallbackLinks: the links of the direct packages from index (from 0) on
RECURSIVE FallbackFrom(_, _, _, _)
FallbackFrom(index, directPackages, transitivePackages, mode) ==
    IF index >= Len(directPackages) THEN << >>
    ELSE LET share == Ceil(Len(transitivePackages), Len(directPackages))
             startIndex == index * share
             endIndex == Min(startIndex + share, Len(transitivePackages))
         IN  [k \in 1..(endIndex - startIndex) |->
                 Link(NodeId(directPackages[index + 1]),
                      NodeId(transitivePackages[startIndex + k]), "1",
                      IF mode = "vulnerabilities" THEN "#ff6b6b" ELSE "#999")]
             \o FallbackFrom(index + 1, directPackages, transitivePackages, mode)

CreateFallbackLinks(packages, mode) ==
    IF DirectPackages(packages) # << >> /\ TransitivePackages(packages) # << >>
    THEN FallbackFrom(0, DirectPackages(packages), TransitivePackages(packages), mode)
    ELSE << >>

CreateSyntheticLinks(packages, mode) ==
    LET links == DirectLinks(DirectPackages(packages), TransitivePackages(packages), mode)
                 \o TransitiveLinks(TransitivePackages(packages), mode)
    IN  IF links = << >> /\ Len(packages) > 1
        THEN CreateFallbackLinks(packages, mode)
        ELSE links

\* a graph whose nodes are the direct packages only
CreateGraphDataDirectNodes(packages, mode) ==
    [nodes |-> [i \in DOMAIN DirectPackages(packages) |->
                   NodeOf(DirectPackages(packages)[i], i - 1, mode)],
     links |-> CreateSyntheticLinks(packages, mode)]

CreateGraphData(packages, mode) ==
    [nodes |-> [i \in DOMAIN packages |-> NodeOf(packages[i], i - 1, mode)],
     links |-> CreateSyntheticLinks(packages, mode)]

-----------------------------------------------------------------------------
(* Analysis runs on one NuGetDependencyProvider                            *)

MaxRuns == 2
RunIds == 1..MaxRuns

Operations ==
    { "getDependencies", "getDependenciesWithVulnerabilities", "getFullDependencyGraph" }

\* the arguments each operation gives analyzeDependencies and
\* createAnalysisMetadata
IncludeVulnerabilities(operation) == operation = "getDependenciesWithVulnerabilities"
IncludeTransitive(operation) == operation = "getFullDependencyGraph"

\* What a collaborator returned to a run, kept for the properties.
NoOutcome == [called |-> FALSE, ok |-> FALSE, packages |-> << >>, error |-> NoError]
Outcome(returned) ==
    [called |-> TRUE, ok |-> returned.ok, packages |-> returned.packages,
     error |-> returned.error]

NoResult ==
    [packages |-> << >>,
     graphData |-> CreateGraphData(<< >>, "dependencies"),
     vulnerabilityCount |-> CountVulnerabilities(<< >>),
     analysisMetadata |-> CreateAnalysisMetadata("dotnet-cli", << >>, "", FALSE, FALSE)]

(* One run of an operation:                                                *)
(*   pc              the await it is suspended at, or how it ended         *)
(*   packages, analysisMethod, error   the locals of analyzeDependencies   *)
(*   graphBuilt, graphData   the graph, once the operation has built it    *)
(*   thrown          the error raised to the caller                        *)
(*   result          the DependencyAnalysisResult returned to the caller   *)
(*   calls, listed, scanned, parsed    what it called and got              *)
IdleRun ==
    [pc |-> "idle", operation |-> "none", projectPath |-> "", packages |-> << >>,
     analysisMethod |-> "dotnet-cli", error |-> NoError, thrown |-> NoError,
     graphBuilt |-> FALSE, graphData |-> CreateGraphData(<< >>, "dependencies"),
     sdkVersion |-> "", result |-> NoResult,
     calls |-> [listPackages |-> 0, scanProject |-> 0, parseProjectFile |-> 0],
     listed |-> NoOutcome, scanned |-> NoOutcome, parsed |-> NoOutcome]

ProviderInit ==
    /\ lastAnalysisMethod = "dotnet-cli"
    /\ runs = [r \in RunIds |-> IdleRun]

OnlyRuns == UNCHANGED << sevVars, now, cacheVars, vulnVars, callVars >>

\* a run that would start with the fallback
CalledParserFirst(operation, projectPath) ==
    [IdleRun EXCEPT !.pc = "parseProjectFile", !.operation = operation,
                    !.projectPath = projectPath]

\* the state of a run that has called analyzeDependencies and awaits
\* listPackages
Called(operation, projectPath) ==
    [IdleRun EXCEPT !.pc = "listPackages", !.operation = operation,
                    !.projectPath = projectPath]

\* the call of each operation, up to the await of listPackages
GetDependencies(r, projectPath) ==
    /\ runs[r].pc = "idle"
    /\ runs' = [runs EXCEPT ![r] = Called("getDependencies", projectPath)]
    /\ UNCHANGED lastAnalysisMethod
    /\ OnlyRuns

GetDependenciesWithVulnerabilities(r, projectPath) ==
    /\ runs[r].pc = "idle"
    /\ runs' = [runs EXCEPT ![r] =
                   Called("getDependenciesWithVulnerabilities", projectPath)]
    /\ UNCHANGED lastAnalysisMethod
    /\ OnlyRuns

GetFullDependencyGraph(r, projectPath) ==
    /\ runs[r].pc = "idle"
    /\ runs' = [runs EXCEPT ![r] = Called("getFullDependencyGraph", projectPath)]
    /\ UNCHANGED lastAnalysisMethod
    /\ OnlyRuns

\* listPackages settles: analyzeDependencies goes on to the scan, to its
\* end, to the fallback, or rethrows.  Where analyzeDependencies ends, the
\* operation builds the graph before it awaits createAnalysisMetadata
ListPackagesReturns(r, exec) ==
    /\ runs[r].pc = "listPackages"
    /\ LET run == runs[r]
           listed == ListPackages(run.projectPath, exec)
           called == [run EXCEPT !.calls.listPackages = @ + 1,
                                 !.listed = Outcome(listed)]
       IN  IF listed.ok
           THEN IF IncludeVulnerabilities(run.operation)
                THEN /\ runs' = [runs EXCEPT ![r] =
                                    [called EXCEPT !.pc = "scanProject",
                                                   !.packages = listed.packages]]
                     /\ UNCHANGED lastAnalysisMethod
                ELSE /\ runs' = [runs EXCEPT ![r] =
                                    [called EXCEPT !.pc = "getVersion",
                                                   !.packages = listed.packages,
                                                   !.analysisMethod = "dotnet-cli",
                                                   !.graphBuilt = TRUE,
                                                   !.graphData =
                                                       CreateGraphData(
                                                           listed.packages,
                                                           ModeOf(run.operation))]]
                     /\ lastAnalysisMethod' = "dotnet-cli"
           ELSE IF AttemptsFallback(listed.error)
                THEN /\ runs' = [runs EXCEPT ![r] =
                                    [called EXCEPT !.pc = "parseProjectFile",
                                                   !.error = listed.error]]
                     /\ UNCHANGED lastAnalysisMethod
                ELSE /\ runs' = [runs EXCEPT ![r] =
                                    [called EXCEPT !.pc = "thrown",
                                                   !.error = listed.error,
                                                   !.thrown = listed.error]]
                     /\ UNCHANGED lastAnalysisMethod
    /\ OnlyRuns

\* scanProject settles: the merge or the swallowed error, then the end of
\* analyzeDependencies
ScanProjectReturns(r, scan) ==
    /\ runs[r].pc = "scanProject"
    /\ LET run == runs[r]
           scanned == ScanProject(run.projectPath, scan)
       IN  runs' = [runs EXCEPT ![r] =
                       [run EXCEPT !.pc = "getVersion",
                                   !.calls.scanProject = @ + 1,
                                   !.scanned = Outcome(scanned),
                                   !.packages = Enrich(run.packages, scanned),
                                   !.analysisMethod = "dotnet-cli",
                                   !.graphBuilt = TRUE,
                                   !.graphData =
                                       CreateGraphData(Enrich(run.packages, scanned),
                                                       ModeOf(run.operation))]]
    /\ lastAnalysisMethod' = "dotnet-cli"
    /\ OnlyRuns

\* parseProjectFile settles: the end of analyzeDependencies, or the
\* composite error
ParseProjectFileReturns(r, file, config) ==
    /\ runs[r].pc = "parseProjectFile"
    /\ LET run == runs[r]
           parsed == ParseProjectFile(file, config)
           called == [run EXCEPT !.calls.parseProjectFile = @ + 1,
                                 !.parsed = Outcome(parsed)]
       IN  IF parsed.ok
           THEN /\ runs' = [runs EXCEPT ![r] =
                               [called EXCEPT !.pc = "getVersion",
                                              !.packages = parsed.packages,
                                              !.analysisMethod = "project-file",
                                              !.graphBuilt = TRUE,
                                              !.graphData =
                                                  CreateGraphData(
                                                      parsed.packages,
                                                      ModeOf(run.operation))]]
                /\ lastAnalysisMethod' = "project-file"
           ELSE /\ runs' = [runs EXCEPT ![r] =
                               [called EXCEPT !.pc = "thrown",
                                              !.thrown = CreateAnalysisError(run.error,
                                                                             parsed.error)]]
                /\ UNCHANGED lastAnalysisMethod
    /\ OnlyRuns

\* a run that awaits getVersion again once it has settled
GetVersionAwaitedAgain(r, exec) ==
    /\ runs[r].pc = "getVersion"
    /\ runs' = [runs EXCEPT ![r] = [@ EXCEPT !.sdkVersion = GetVersion(exec)]]
    /\ UNCHANGED lastAnalysisMethod
    /\ OnlyRuns

\* getVersion settles in createAnalysisMetadata
GetVersionReturns(r, exec) ==
    /\ runs[r].pc = "getVersion"
    /\ runs' = [runs EXCEPT ![r] = [@ EXCEPT !.pc = "validateProject",
                                             !.sdkVersion = GetVersion(exec)]]
    /\ UNCHANGED lastAnalysisMethod
    /\ OnlyRuns

\* validateProject settles in createAnalysisMetadata: the metadata is
\* built from this.lastAnalysisMethod and the operation returns
ValidateProjectReturns(r, file) ==
    /\ runs[r].pc = "validateProject"
    /\ LET run == runs[r]
       IN  runs' = [runs EXCEPT ![r] =
                       [run EXCEPT !.pc = "returned",
                                   !.result =
                                       [packages |-> run.packages,
                                        graphData |-> run.graphData,
                                        vulnerabilityCount |->
                                            CountVulnerabilities(run.packages),
                                        analysisMetadata |->
                                            CreateAnalysisMetadata(
                                                lastAnalysisMethod,
                                                ValidateProject(file),
                                                run.sdkVersion,
                                                IncludeTransitive(run.operation),
                                                IncludeVulnerabilities(run.operation))]]]
    /\ UNCHANGED lastAnalysisMethod
    /\ OnlyRuns

-----------------------------------------------------------------------------
(* What the environment hands the runs                                     *)

Net6_0 == << "n","e","t","6",".","0" >>
Net8_0 == << "n","e","t","8",".","0" >>
\* " net6.0; net8.0 ;"
Net6AndNet8 == << " " >> \o Net6_0 \o << ";", " " >> \o Net8_0 \o << " ", ";" >>

RunPaths == { "", "/a/App.csproj" }

\* Outputs of `dotnet list package --format json`
Entry(id, requestedVersion, resolvedVersion) ==
    [id |-> id, requestedVersion |-> requestedVersion, resolvedVersion |-> resolvedVersion]

Framework(name, topLevelPackages, transitivePackages) ==
    [framework |-> name, topLevelPackages |-> topLevelPackages,
     transitivePackages |-> transitivePackages]

EmptyOutput == [kind |-> "empty", frameworks |-> << >>]
TextOutput == [kind |-> "text", frameworks |-> << >>]
Json(frameworks) == [kind |-> "json", frameworks |-> frameworks]

Exec(exitCode, phrases, stdout) ==
    [exitCode |-> exitCode, phrases |-> phrases, stdout |-> stdout]

\* one framework, two packages
ListOne ==
    << Framework(Net8_0, << Entry("Serilog", "3.1.1", "3.1.1"),
                            Entry("Newtonsoft.Json", "", "13.0.3") >>, << >>) >>

\* a project with two target frameworks that reference the same package
ListTwoFrameworks ==
    << Framework(Net6_0, << Entry("Serilog", "3.1.1", "3.1.1") >>, << >>),
       Framework(Net8_0, << Entry("Serilog", "3.1.1", "3.1.1") >>, << >>) >>

\* entries without id or versions under a framework without name
ListPartial ==
    << Framework(<< >>, << Entry("", "1.0.0", "1.0.0"), Entry("Polly", "", "") >>, << >>) >>

\* with --include-transitive
ListTransitive ==
    << Framework(Net8_0, << Entry("Serilog", "3.1.1", "3.1.1") >>,
                         << Entry("Serilog.Sinks.File", "", "5.0.0"),
                            Entry("", "", "1.0.0") >>) >>

\* with --include-transitive, packages whose names have nothing in common
ListUnrelated ==
    << Framework(Net8_0, << Entry("Polly", "8.2.0", "8.2.0"),
                            Entry("Serilog", "3.1.1", "3.1.1") >>,
                         << Entry("Newtonsoft.Json", "", "13.0.3") >>) >>

ListDocuments(includeTransitive) ==
    { ListOne, ListTwoFrameworks, ListPartial, << >> }
        \cup (IF includeTransitive THEN { ListTransitive, ListUnrelated } ELSE { })

ListExecs(includeTransitive) ==
    { Exec(0, { }, Json(d)) : d \in ListDocuments(includeTransitive) }
        \cup { Exec(0, { }, EmptyOutput) }
        \cup { Exec(0, ph, TextOutput) : ph \in SUBSET { "timeout", "notfound" } }
        \cup { Exec(1, ph, EmptyOutput) :
                   ph \in SUBSET { "noproject", "invalid", "denied", "network" } }

\* Outputs of `dotnet list package --vulnerable --format json`
Reported(isObject, severity, advisoryUrl, id, title, generated) ==
    [isObject |-> isObject, severity |-> severity, advisoryUrl |-> advisoryUrl,
     id |-> id, title |-> title, generated |-> generated]

VulnerableEntry(id, resolvedVersion, isTransitive, vulnerabilities) ==
    [id |-> id, resolvedVersion |-> resolvedVersion, requestedVersion |-> "",
     isTransitive |-> isTransitive, vulnerabilities |-> vulnerabilities]

VulnerableFramework(name, vulnerablePackages) ==
    [framework |-> name, vulnerablePackages |-> vulnerablePackages]

Critical1 == Reported(TRUE, JsString(W_critical), "https://advisory/1", "", "RCE", "vuln-1")
Medium2 == Reported(TRUE, JsString(ToUpperCase(SubSeq(W_medium, 1, 1)) \o Tail(W_medium)),
                    "", "GHSA-2", "", "vuln-2")
High3 == Reported(TRUE, JsString(ToUpperCase(W_high)), "https://advisory/3", "", "DoS", "vuln-3")
Nameless4 == Reported(TRUE, JsNumber(7), "", "", "", "vuln-4")
NoObject == Reported(FALSE, JsUndefined, "", "", "", "vuln-5")

\* one package with a critical and one with a Medium vulnerability
ScenarioC ==
    << VulnerableFramework(Net8_0,
          << VulnerableEntry("Serilog", "3.1.1", FALSE, << Critical1 >>),
             VulnerableEntry("Newtonsoft.Json", "13.0.3", FALSE, << Medium2 >>) >>) >>

\* the same package reported under two frameworks
ReportedTwice ==
    << VulnerableFramework(Net6_0,
          << VulnerableEntry("Serilog", "3.1.1", FALSE, << High3 >>) >>),
       VulnerableFramework(Net8_0,
          << VulnerableEntry("Serilog", "3.1.1", FALSE, << Critical1 >>) >>) >>

\* a transitive package, entries that are no objects, no id, no severity
ReportedOdd ==
    << VulnerableFramework(<< >>,
          << VulnerableEntry("Serilog.Sinks.File", "5.0.0", TRUE, << Nameless4, NoObject >>),
             VulnerableEntry("", "1.0.0", FALSE, << High3 >>),
             VulnerableEntry("Polly", "", FALSE, << >>) >>) >>

VulnerableDocuments == { ScenarioC, ReportedTwice, ReportedOdd, << >> }

Scan(failed, exec) == [failed |-> failed, exec |-> exec]

Scans ==
    { Scan(TRUE, Exec(0, { }, EmptyOutput)) }
        \cup { Scan(FALSE, Exec(0, { }, Json(d))) : d \in VulnerableDocuments }
        \cup { Scan(FALSE, Exec(0, { }, EmptyOutput)) }
        \cup { Scan(FALSE, Exec(0, ph, TextOutput)) :
                   ph \in { { }, { "timeout" }, { "network" }, { "notfound" } } }
        \cup { Scan(FALSE, Exec(1, ph, EmptyOutput)) :
                   ph \in { { }, { "clean" }, { "noproject" }, { "network" }, { "denied" } } }

\* Outputs of `dotnet --version`
VersionExecs ==
    { [exitCode |-> 0, version |-> "8.0.100"], [exitCode |-> 0, version |-> ""],
      [exitCode |-> 1, version |-> ""] }

\* Project files
PackageRef(hasAttributes, Include, Version, VersionChild) ==
    [hasAttributes |-> hasAttributes, Include |-> Include, Version |-> Version,
     VersionChild |-> VersionChild]

Ref(hasAttributes, Include, hintId, hintVersion) ==
    [hasAttributes |-> hasAttributes, Include |-> Include, hintId |-> hintId,
     hintVersion |-> hintVersion]

ItemGroup(PackageReference, Reference) ==
    [PackageReference |-> PackageReference, Reference |-> Reference]

PropertyGroup(TargetFramework, TargetFrameworks) ==
    [TargetFramework |-> TargetFramework, TargetFrameworks |-> TargetFrameworks]

ProjectXml(root, hasAttributes, Sdk, xmlns, propertyGroups, itemGroups) ==
    [root |-> root, hasAttributes |-> hasAttributes, Sdk |-> Sdk, xmlns |-> xmlns,
     xsi |-> "", PropertyGroup |-> propertyGroups, ItemGroup |-> itemGroups]

MsBuild2003 == "http://schemas.microsoft.com/developer/msbuild/2003"

SomeReferences ==
    << PackageRef(TRUE, "Serilog", "3.1.1", ""),
       PackageRef(TRUE, "Newtonsoft.Json", "", "13.0.3"),
       PackageRef(TRUE, "Serilog", "3.1.1", ""),
       PackageRef(TRUE, "Polly", "", ""),
       PackageRef(TRUE, "", "1.0.0", ""),
       PackageRef(FALSE, "", "", "") >>

SomeHints ==
    << Ref(TRUE, "EntityFramework, Version=6.0.0.0", "EntityFramework", "6.4.4"),
       Ref(TRUE, "log4net", "log4net", ""),
       Ref(TRUE, "System.Xml", "", ""),
       Ref(FALSE, "", "Moq", "4.0.0") >>

ModernXml ==
    ProjectXml("Project", TRUE, "Microsoft.NET.Sdk", "",
               << PropertyGroup(<< Net8_0 >>, << >>) >>,
               << ItemGroup(SomeReferences, << >>), ItemGroup(<< >>, SomeHints) >>)

MultiTargetXml ==
    ProjectXml("Project", TRUE, "Microsoft.NET.Sdk", "",
               << PropertyGroup(<< >>, << Net6AndNet8 >>) >>,
               << ItemGroup(<< PackageRef(TRUE, "Serilog", "3.1.1", "") >>, << >>) >>)

\* an SDK-style project that targets the .NET Framework
ModernNet48Xml ==
    ProjectXml("Project", TRUE, "Microsoft.NET.Sdk", "",
               << PropertyGroup(<< Net48 >>, << >>) >>,
               << ItemGroup(<< PackageRef(TRUE, "Serilog", "3.1.1", "") >>, << >>) >>)

LegacyXml ==
    ProjectXml("Project", TRUE, "", MsBuild2003, << PropertyGroup(<< >>, << >>) >>,
               << ItemGroup(SomeReferences, SomeHints) >>)

NoAttributesXml ==
    ProjectXml("Project", FALSE, "", "", << >>, << ItemGroup(SomeReferences, << >>) >>)

LowerCaseRootXml ==
    ProjectXml("project", TRUE, "Microsoft.NET.Sdk", "", << >>, << >>)

NoSdkNoNamespaceXml ==
    ProjectXml("Project", TRUE, "", "", << >>, << ItemGroup(SomeReferences, << >>) >>)

ProjectXmls ==
    { ModernXml, MultiTargetXml, ModernNet48Xml, LegacyXml, NoAttributesXml,
      LowerCaseRootXml, NoSdkNoNamespaceXml }

ReadableFile(xml) ==
    [stat |-> "ok", isFile |-> TRUE, size |-> "normal", access |-> "ok", read |-> "ok",
     length |-> "ok", hasProjectTag |-> TRUE, parse |-> "ok", xml |-> xml]

\* the ways a file fails to be read or parsed
UnreadableFiles ==
    LET file == ReadableFile(ModernXml)
    IN  { [file EXCEPT !.stat = code] : code \in { "ENOENT", "EACCES", "EIO" } }
        \cup { [file EXCEPT !.isFile = FALSE] }
        \cup { [file EXCEPT !.size = size] : size \in { "zero", "huge" } }
        \cup { [file EXCEPT !.access = code] : code \in { "EACCES", "EIO" } }
        \cup { [file EXCEPT !.read = code] : code \in { "EILSEQ", "EIO" } }
        \cup { [file EXCEPT !.length = length] : length \in { "empty", "short" } }
        \cup { [file EXCEPT !.hasProjectTag = FALSE] }
        \cup { [file EXCEPT !.parse = parse] : parse \in { "null", "xmlError", "error" } }

ProjectFiles == { ReadableFile(xml) : xml \in ProjectXmls } \cup UnreadableFiles

\* packages.config files
ConfigPackage(hasAttributes, id, version, targetFramework, developmentDependency) ==
    [hasAttributes |-> hasAttributes, id |-> id, version |-> version,
     targetFramework |-> targetFramework, developmentDependency |-> developmentDependency]

ConfigXml ==
    [root |-> "packages",
     package |-> << ConfigPackage(TRUE, "Serilog", "3.1.1", Net48, ""),
                    ConfigPackage(TRUE, "NUnit", "3.14.0", << >>, "true"),
                    ConfigPackage(TRUE, "NoVersion", "", << >>, ""),
                    ConfigPackage(FALSE, "", "", << >>, "") >>]

\* no packages.config; one as NuGet writes it; one whose text happens to
\* contain "<Project"; one that is no XML
ConfigFiles ==
    { [ReadableFile(ConfigXml) EXCEPT !.access = "ENOENT"],
      [ReadableFile(ConfigXml) EXCEPT !.hasProjectTag = FALSE],
      ReadableFile(ConfigXml),
      [ReadableFile(ConfigXml) EXCEPT !.parse = "xmlError"] }

-----------------------------------------------------------------------------
(* Methods called on their own                                             *)

OnlyCall == UNCHANGED << sevVars, now, cacheVars, vulnVars, runVars, heap >>

\* Manifests whose PackageReference elements all have Include and a
\* version, as an attribute or as a child element
MaxRefs == 3

VersionedRefs ==
    { PackageRef(TRUE, "Serilog", "3.1.1", ""),
      PackageRef(TRUE, "Newtonsoft.Json", "", "13.0.3"),
      PackageRef(TRUE, "Serilog", "2.12.0", "") }

VersionedRefLists == UNION { [1..n -> VersionedRefs] : n \in 0..MaxRefs }

ManifestRoots ==
    { ProjectXml("Project", TRUE, "Microsoft.NET.Sdk", "",
                 << PropertyGroup(<< Net8_0 >>, << >>) >>, << >>),
      ProjectXml("Project", TRUE, "Microsoft.NET.Sdk", "",
                 << PropertyGroup(<< Net48 >>, << >>) >>, << >>),
      ProjectXml("Project", TRUE, "", MsBuild2003, << PropertyGroup(<< >>, << >>) >>, << >>),
      ProjectXml("Project", FALSE, "", "", << >>, << >>),
      ProjectXml("Project", TRUE, "", "", << >>, << >>) }

ManifestXmls ==
    { [root EXCEPT !.ItemGroup = << ItemGroup(refs, hints) >>] :
        root \in ManifestRoots, refs \in VersionedRefLists, hints \in { << >>, SomeHints } }

\* files of zero bytes: nothing to read, nothing to parse
ZeroByteFiles ==
    { [ReadableFile(ModernXml) EXCEPT !.size = "zero", !.access = access, !.read = access,
                                      !.length = "empty", !.hasProjectTag = FALSE,
                                      !.parse = "null"] :
        access \in { "ok", "EACCES" } }

ParserFiles ==
    ProjectFiles \cup ZeroByteFiles \cup { ReadableFile(xml) : xml \in ManifestXmls }

ParserCalls ==
    { [op |-> "parseProjectFile", file |-> file, config |-> config, done |-> FALSE,
       returned |-> NoOutcome, steps |-> << >>] :
        file \in ParserFiles, config \in ConfigFiles }

\* ProjectFileParser.parseProjectFile(projectPath)
ParseProjectFileCall ==
    /\ call.op = "parseProjectFile"
    /\ ~call.done
    /\ call' = [call EXCEPT !.done = TRUE,
                            !.returned = Outcome(ParseProjectFile(call.file, call.config)),
                            !.steps = ParseProjectFileSteps(call.file)]
    /\ OnlyCall

\* DotNetCliService.listPackages(projectPath, {format: 'json'})
\* scenario B: one top-level and two transitive packages
ListScenarioB ==
    << Framework(Net8_0, << Entry("Serilog", "3.1.1", "3.1.1") >>,
                         << Entry("Serilog.Sinks.File", "", "5.0.0"),
                            Entry("Serilog.Sinks.Console", "", "5.0.1") >>) >>

ListCalls ==
    { [op |-> "listPackages", projectPath |-> p, exec |-> exec, done |-> FALSE,
       returned |-> NoOutcome] :
        p \in RunPaths, exec \in ListExecs(TRUE) \cup { Exec(0, { }, Json(ListScenarioB)) } }

ListPackagesCall ==
    /\ call.op = "listPackages"
    /\ ~call.done
    /\ call' = [call EXCEPT !.done = TRUE,
                            !.returned = Outcome(ListPackages(call.projectPath, call.exec))]
    /\ OnlyCall

\* DotNetCliService.listVulnerablePackages(projectPath)
ScanCalls ==
    { [op |-> "listVulnerablePackages", projectPath |-> p, exec |-> exec, done |-> FALSE,
       returned |-> NoOutcome] :
        p \in RunPaths,
        exec \in { scan.exec : scan \in Scans }
                 \cup { Exec(1, ph, EmptyOutput) :
                            ph \in SUBSET { "clean", "noproject", "network", "denied" } } }

ListVulnerablePackagesCall ==
    /\ call.op = "listVulnerablePackages"
    /\ ~call.done
    /\ call' = [call EXCEPT !.done = TRUE,
                            !.returned =
                                Outcome(ListVulnerablePackages(call.projectPath, call.exec))]
    /\ OnlyCall

\* DotNetCliService.restorePackages(projectPath)
RestoreCalls ==
    { [op |-> "restorePackages", projectPath |-> p, exec |-> exec, done |-> FALSE,
       returned |-> NoOutcome] :
        p \in RunPaths,
        exec \in { Exec(0, { }, EmptyOutput) }
                 \cup { Exec(1, ph, EmptyOutput) :
                            ph \in SUBSET { "noproject", "invalid", "network", "denied",
                                            "source" } } }

RestorePackagesCall ==
    /\ call.op = "restorePackages"
    /\ ~call.done
    /\ LET error == RestorePackages(call.projectPath, call.exec)
       IN  call' = [call EXCEPT !.done = TRUE,
                                !.returned = Outcome([ok |-> error = NoError,
                                                      packages |-> << >>, error |-> error])]
    /\ OnlyCall

\* DotNetCliService.getVersion()
VersionCalls ==
    { [op |-> "getVersion", exec |-> exec, done |-> FALSE, returned |-> NoOutcome] :
        exec \in VersionExecs }

GetVersionCall ==
    /\ call.op = "getVersion"
    /\ ~call.done
    /\ LET error == GetVersionError(call.exec)
       IN  call' = [call EXCEPT !.done = TRUE,
                                !.returned = Outcome([ok |-> error = NoError,
                                                      packages |-> << >>, error |-> error])]
    /\ OnlyCall

\* CommandExecutor.executeCommand: the ways execAsync settles
ENOENT == << "E","N","O","E","N","T" >>
ERR_OUT_OF_RANGE == << "E","R","R","_","O","U","T","_","O","F","_","R","A","N","G","E" >>

Settled(cause, resolved, hasOutput, code, stdout, stderr, message) ==
    [cause |-> cause, resolved |-> resolved, hasOutput |-> hasOutput, code |-> code,
     stdout |-> stdout, stderr |-> stderr, message |-> message]

SomeStdout == { { }, { "clean" } }
SomeStderr == { { }, { "notfound" }, { "noproject" }, { "network" } }

ExecSettlements ==
    \* exit status 0
    { Settled("exit", TRUE, TRUE, JsNumber(0), out, err, { }) :
        out \in SomeStdout, err \in SomeStderr }
    \* another exit status; 127 is the shell's "command not found"
    \cup { Settled("exit", FALSE, TRUE, JsNumber(n), out, err, err) :
               n \in { 1, 127 }, out \in SomeStdout, err \in SomeStderr }
    \* killed with SIGTERM when the timeout ran out: the code is null and
    \* the message is "Command failed: " with the command and stderr
    \cup { Settled("timeout", FALSE, TRUE, JsNull, out, err, err) :
               out \in SomeStdout, err \in { { }, { "network" } } }
    \* no shell or no working directory: "spawn /bin/sh ENOENT"
    \cup { Settled("spawn", FALSE, TRUE, JsString(ENOENT), { }, { }, { "notfound" }) }
    \* exec refuses its options
    \cup { Settled("call", FALSE, FALSE, JsString(ERR_OUT_OF_RANGE), { }, { }, { }) }

ExecCalls ==
    { [op |-> "executeCommand", settled |-> settled, done |-> FALSE,
       returned |-> ExecuteCommand(Settled("exit", TRUE, TRUE, JsNumber(0), { }, { }, { }))] :
        settled \in ExecSettlements }

ExecuteCommandCall ==
    /\ call.op = "executeCommand"
    /\ ~call.done
    /\ call' = [call EXCEPT !.done = TRUE, !.returned = ExecuteCommand(call.settled)]
    /\ OnlyCall

\* DotNetCliService.listPackages over CommandExecutor.executeCommand: what
\* listPackages is handed is the CommandResult of executeCommand, its
\* stdout here no JSON document
ResultAsExec(result) ==
    Exec(IF result.exitCode = JsNumber(0) THEN 0 ELSE 1,
         result.stderr \cup result.stdout, EmptyOutput)

ListPackagesOver(projectPath, settled) ==
    ListPackages(projectPath, ResultAsExec(ExecuteCommand(settled)))

\* the toolchain binary is missing: the shell ends with status 127 and
\* says that the command was not found
BinaryMissing(settled) ==
    /\ settled.cause = "exit"
    /\ settled.code = JsNumber(127)
    /\ "notfound" \in settled.stderr

ListOverCalls ==
    { [op |-> "listPackagesOver", projectPath |-> p, settled |-> settled, done |-> FALSE,
       returned |-> NoOutcome] :
        p \in RunPaths, settled \in ExecSettlements }

ListPackagesOverCall ==
    /\ call.op = "listPackagesOver"
    /\ ~call.done
    /\ call' = [call EXCEPT !.done = TRUE,
                            !.returned =
                                Outcome(ListPackagesOver(call.projectPath, call.settled))]
    /\ OnlyCall

\* DotNetCliService.parseVulnerablePackagesOutput called again on the same
\* output.  What Date.now() and Math.random() give is drawn at each call:
\* the identifier generated for an entry is the entry's own, with the draw
\* of the call
MaxParses == 2
Draws == { "a", "b" }

DrawnFor(entries, draw) ==
    [i \in DOMAIN entries |->
        [entries[i] EXCEPT !.generated = entries[i].generated \o "-" \o draw]]

OutputAt(frameworks, draw) ==
    [f \in DOMAIN frameworks |->
        [frameworks[f] EXCEPT !.vulnerablePackages =
            [e \in DOMAIN @ |->
                [@[e] EXCEPT !.vulnerabilities = DrawnFor(@, draw)]]]]

ParseAgainCalls ==
    { [op |-> "parseVulnerablePackagesOutput", frameworks |-> d, parses |-> << >>] :
        d \in VulnerableDocuments }

ParseVulnerablePackagesOutputCall ==
    /\ call.op = "parseVulnerablePackagesOutput"
    /\ Len(call.parses) < MaxParses
    /\ \E draw \in Draws :
           call' = [call EXCEPT !.parses =
                       Append(@, ParseVulnerablePackagesOutput(
                                     Json(OutputAt(call.frameworks, draw))).packages)]
    /\ OnlyCall

-----------------------------------------------------------------------------
(* Specifications                                                          *)

(* createGraphData on its own, over package lists of every shape          *)

Modes == { "dependencies", "vulnerabilities", "full" }

\* ids that share a first part (Microsoft, Serilog), a known word and no
\* first part (Logging, AspNetCore), or nothing
GraphIds ==
    { "Microsoft.Extensions.Logging", "Microsoft.AspNetCore.Mvc",
      "Serilog.Extensions.Logging", "Serilog", "Newtonsoft.Json",
      "Swashbuckle.AspNetCore" }

GraphPackage(id, isTransitive) ==
    Package(id, "1.0.0", "1.0.0", isTransitive, IF isTransitive THEN 1 ELSE 0, << >>, "")

MaxPackages == 3
ShortLists ==
    UNION { [1..n -> { GraphPackage(id, isTransitive) :
                           id \in GraphIds, isTransitive \in BOOLEAN }] :
                n \in 0..MaxPackages }

\* ids of which no two are related by any rule
UnrelatedIds ==
    << "Alpha", "Bravo", "Castle", "Delta", "Echo", "Foxtrot", "Golf", "Hotel",
       "India", "Juliet", "Kilo", "Lima", "Mike", "Nova" >>

\* d direct packages followed by t transitive ones, all unrelated
Unrelated(d, t) ==
    [i \in 1..(d + t) |-> GraphPackage(UnrelatedIds[i], i > d)]

MaxDirect == 4
MaxTransitive == 5
UnrelatedLists ==
    { Unrelated(d, t) : d \in 0..MaxDirect, t \in 0..MaxTransitive }
        \cup { Unrelated(Len(PackageColors) + 2, 0), Unrelated(2, Len(PackageColors)) }

Found(severity) ==
    [id |-> "GHSA-" \o severity, severity |-> severity, title |-> "t",
     advisoryUrl |-> ""]

MaxFound == 2
FoundLists == UNION { [1..n -> { Found(s) : s \in Severities }] : n \in 0..MaxFound }

\* a package with vulnerabilities, before or after one without
VulnerableLists ==
    UNION { { << [GraphPackage("Serilog", isTransitive)
                     EXCEPT !.hasVulnerabilities = TRUE, !.vulnerabilities = found] >>,
              << GraphPackage("Newtonsoft.Json", FALSE),
                 [GraphPackage("Serilog", isTransitive)
                     EXCEPT !.hasVulnerabilities = TRUE, !.vulnerabilities = found] >> } :
                found \in FoundLists, isTransitive \in BOOLEAN }

GraphCalls ==
    { [op |-> "createGraphData", packages |-> packages, mode |-> mode, done |-> FALSE,
       graph |-> CreateGraphData(<< >>, mode)] :
        packages \in ShortLists \cup UnrelatedLists \cup VulnerableLists,
        mode \in Modes }

\* NuGetDependencyProvider.createGraphData(packages, mode)
CreateGraphDataCall ==
    /\ call.op = "createGraphData"
    /\ ~call.done
    /\ call' = [call EXCEPT !.done = TRUE,
                            !.graph = CreateGraphData(call.packages, call.mode)]
    /\ OnlyCall

(* mergeVulnerabilityData on its own                                       *)

With(pkg, found) ==
    [pkg EXCEPT !.hasVulnerabilities = TRUE, !.vulnerabilities = found]

\* packages of two ids, one id in two entries, one entry with a
\* vulnerability already
ListedPackages ==
    { GraphPackage("Serilog", FALSE), GraphPackage("Serilog", TRUE),
      GraphPackage("Newtonsoft.Json", FALSE),
      With(GraphPackage("Serilog", FALSE), << Found("Low") >>) }

\* scan entries for those ids and for one that is not listed, in another
\* version, with no vulnerabilities array, an empty one or one entry
ScannedPackages ==
    LET entry(id) == Package(id, "2.0.0", "2.0.0", TRUE, 1, Unknown, "")
    IN  UNION { { entry(id), With(entry(id), << >>), With(entry(id), << Found("High") >>) } :
                    id \in { "Serilog", "Polly" } }

MaxScanned == 2
MergeCalls ==
    { [op |-> "mergeVulnerabilityData", packages |-> packages,
       vulnerablePackages |-> vulnerablePackages, done |-> FALSE, steps |-> << >>] :
        packages \in UNION { [1..n -> ListedPackages] : n \in 0..MaxPackages },
        vulnerablePackages \in UNION { [1..n -> ScannedPackages] : n \in 0..MaxScanned } }

\* NuGetDependencyProvider.mergeVulnerabilityData(packages,
\* vulnerablePackages): steps[k] is the list when k - 1 scan entries have
\* been merged, the last one the list the caller is left with
MergeVulnerabilityDataCall ==
    /\ call.op = "mergeVulnerabilityData"
    /\ ~call.done
    /\ call' = [call EXCEPT
                   !.done = TRUE,
                   !.steps = [k \in 1..(Len(call.vulnerablePackages) + 1) |->
                                 MergeVulnerabilityData(
                                     call.packages,
                                     SubSeq(call.vulnerablePackages, 1, k - 1))]]
    /\ OnlyCall

(* AssetManager: the loading status                                         *)

\* requiredAssets of initializeLoadingStatus, in its order
RequiredAssets == << "force-graph-3d.js", "react.js", "react-dom.js", "three.js" >>

RequiredNames == { RequiredAssets[i] : i \in DOMAIN RequiredAssets }

\* AssetLoadingProgress['status']
AssetStatuses == { "pending", "loading", "loaded", "failed", "fallback" }

\* loadingProgress is an object literal: besides its own keys a property
\* read finds the members of Object.prototype, here its constructor
InheritedNames == { "constructor" }

\* the names a caller passes: the four assets, a name that is no asset,
\* and a name that is a member of every object
AssetNames == RequiredNames \cup { "unknown.js" } \cup InheritedNames

\* AssetManager.initializeLoadingStatus(): loadingProgress is the list of
\* the object's own entries in the order of Object.entries
InitializeLoadingStatus ==
    [ loadingProgress |-> [i \in DOMAIN RequiredAssets |->
                              [assetName |-> RequiredAssets[i], status |-> "pending"]],
      totalAssets     |-> Len(RequiredAssets),
      loadedAssets    |-> 0,
      failedAssets    |-> << >> ]

\* the place of the own entry of a name in loadingProgress, 0 if it has none
OwnEntry(loadingProgress, assetName) ==
    IF \E i \in DOMAIN loadingProgress : loadingProgress[i].assetName = assetName
    THEN CHOOSE i \in DOMAIN loadingProgress : loadingProgress[i].assetName = assetName
    ELSE 0

\* if (currentProgress), currentProgress being loadingProgress[assetName]:
\* an own entry, or else an inherited member, is truthy
CurrentProgress(loadingProgress, assetName) ==
    \/ OwnEntry(loadingProgress, assetName) # 0
    \/ assetName \in InheritedNames

\* currentProgress.status: an inherited member has none
CurrentStatus(loadingProgress, assetName) ==
    IF OwnEntry(loadingProgress, assetName) # 0
    THEN loadingProgress[OwnEntry(loadingProgress, assetName)].status
    ELSE Undefined

\* AssetManager.updateLoadingCounters()
UpdateLoadingCounters(loadingStatus) ==
    LET IsFailed(e)  == e.status = "failed"
        failedOnes   == SelectSeq(loadingStatus.loadingProgress, IsFailed)
    IN  [loadingStatus EXCEPT
            !.loadedAssets = Cardinality({ i \in DOMAIN loadingStatus.loadingProgress :
                                 loadingStatus.loadingProgress[i].status = "loaded" }),
            !.failedAssets = [i \in DOMAIN failedOnes |-> failedOnes[i].assetName]]

\* AssetManager.updateAssetProgress(assetName, progress) on a loading
\* status; of the fields of an entry the status is kept, the other five
\* follow the same ?? rule and feed no counter
UpdateAssetProgressOf(loadingStatus, assetName, progress) ==
    LET loadingProgress == loadingStatus.loadingProgress
        own   == OwnEntry(loadingProgress, assetName)
        entry == [assetName |-> assetName,
                  status    |-> IF progress.status # Undefined
                                THEN progress.status
                                ELSE CurrentStatus(loadingProgress, assetName)]
    IN  IF ~CurrentProgress(loadingProgress, assetName)
        THEN loadingStatus
        ELSE UpdateLoadingCounters(
                 [loadingStatus EXCEPT
                     !.loadingProgress = IF own # 0
                                         THEN [loadingProgress EXCEPT ![own] = entry]
                                         ELSE Append(loadingProgress, entry)])

\* the statuses a caller of updateAssetProgress gives: the two that feed a
\* counter and none at all ('loading' comes with reloadAsset, 'pending'
\* with the constructor)
GivenStatuses == { "loaded", "failed", Undefined }

\* reloadAsset calls that are waiting at their await
MaxReloads == 2

RECURSIVE SumOver(_, _)
SumOver(reloading, names) ==
    IF names = {} THEN 0
    ELSE LET n == CHOOSE m \in names : TRUE
         IN  reloading[n] + SumOver(reloading, names \ { n })

\* reloading[a] is the number of reloadAsset(a) calls at their await
Waiting(reloading) == SumOver(reloading, RequiredNames)

\* of the last call, if it was an updateAssetProgress: whether its name had
\* an entry before it and whether it left the loading status as it found it
NoAssetCall == [method |-> "none", tracked |-> TRUE, same |-> TRUE]

AssetCalls ==
    { [op |-> "assets", loadingStatus |-> InitializeLoadingStatus,
       reloading |-> [a \in RequiredNames |-> 0], last |-> NoAssetCall] }

\* a call of AssetManager.updateAssetProgress
UpdateAssetProgress(assetName, progress) ==
    /\ call.op = "assets"
    /\ LET after == UpdateAssetProgressOf(call.loadingStatus, assetName, progress)
       IN  call' = [call EXCEPT
                       !.loadingStatus = after,
                       !.last = [method  |-> "updateAssetProgress",
                                 tracked |-> OwnEntry(call.loadingStatus.loadingProgress,
                                                      assetName) # 0,
                                 same    |-> after = call.loadingStatus]]
    /\ OnlyCall

\* AssetManager.reloadAsset(assetName) up to its first await: a name of the
\* switch waits for bundleAsset, any other name throws and is caught
ReloadAsset(assetName) ==
    /\ call.op = "assets"
    /\ assetName \in RequiredNames => Waiting(call.reloading) < MaxReloads
    /\ LET loading == UpdateAssetProgressOf(call.loadingStatus, assetName,
                                            [status |-> "loading"])
           after   == IF assetName \in RequiredNames
                      THEN loading
                      ELSE UpdateAssetProgressOf(loading, assetName,
                                                 [status |-> "failed"])
       IN  call' = [call EXCEPT
                       !.loadingStatus = after,
                       !.reloading = IF assetName \in RequiredNames
                                     THEN [@ EXCEPT ![assetName] = @ + 1] ELSE @,
                       !.last = NoAssetCall]
    /\ OnlyCall

\* the rest of reloadAsset: bundleAsset and verifyLocalAsset catch what
\* they meet, so the call goes on to its update to 'loaded'
ReloadAssetResumes(assetName) ==
    /\ call.op = "assets"
    /\ call.reloading[assetName] > 0
    /\ call' = [call EXCEPT
                   !.loadingStatus = UpdateAssetProgressOf(@, assetName,
                                                           [status |-> "loaded"]),
                   !.reloading = [@ EXCEPT ![assetName] = @ - 1],
                   !.last = NoAssetCall]
    /\ OnlyCall

NextAssets ==
    \/ \E assetName \in AssetNames, s \in GivenStatuses :
           UpdateAssetProgress(assetName, [status |-> s])
    \/ \E assetName \in AssetNames : ReloadAsset(assetName)
    \/ \E assetName \in RequiredNames : ReloadAssetResumes(assetName)

(* The two validators on one project file                                  *)

\* monikers of every family, one of no family, and one whose prefix is
\* the family of none (net10.0)
Monikers ==
    { Net(d) \o << ".", "0" >> : d \in { "2", "3", "4", "5", "6", "7", "8", "9" } }
        \cup { NetCoreApp \o << "3", ".", "1" >>, NetStandard \o << "2", ".", "0" >>,
               Net("1") \o << "0", ".", "0" >>, << "u","a","p","1","0" >> }

\* a project of the modern or of the legacy format that targets one
\* framework, or two in one TargetFrameworks element
TargetingFiles ==
    LET groups == { << PropertyGroup(<< m >>, << >>) >> : m \in Monikers }
                      \cup { << PropertyGroup(<< >>, << m1 \o << ";" >> \o m2 >>) >> :
                                 m1 \in Monikers, m2 \in Monikers }
    IN  { ReadableFile(ProjectXml("Project", TRUE, "Microsoft.NET.Sdk", "", g, << >>)) :
              g \in groups }
            \cup { ReadableFile(ProjectXml("Project", TRUE, "", MsBuild2003, g, << >>)) :
                       g \in groups }

ValidateCalls ==
    { [op |-> "validate", file |-> file, done |-> FALSE,
       parser |-> UnknownProject, provider |-> UnknownProject] :
        file \in TargetingFiles }

\* ProjectFileParser.validateProjectFile(projectPath) and
\* NuGetDependencyProvider.validateProject(projectPath) on the same file
ValidateCall ==
    /\ call.op = "validate"
    /\ ~call.done
    /\ call' = [call EXCEPT !.done = TRUE,
                            !.parser = ValidateProjectFile(call.file),
                            !.provider = [projectType |-> ValidateProjectType(call.file),
                                          frameworks |-> ValidateProject(call.file)]]
    /\ OnlyCall

VulnIdle == VulnInit

NextSeverity ==
    SevNormalize

InitSeverity ==
    /\ SevDraw(sevInput, sevMade)
    /\ sevResult = "none"
    /\ now = 0
    /\ CacheInit
    /\ VulnIdle
    /\ ProviderInit
    /\ CallIdle

SpecSeverity == InitSeverity /\ [][NextSeverity]_vars

InitCache ==
    /\ SevIdle
    /\ now = 0
    /\ CacheInit
    /\ VulnIdle
    /\ ProviderInit
    /\ CallIdle

SpecCache == InitCache /\ [][NextCache]_vars

\* set() and get() among callers that change the objects they hold
NextAlias ==
    \/ \E k \in CacheKeys, v \in CacheValues : CacheSet(k, v, NoTtl)
    \/ \E k \in CacheKeys : CacheGet(k)
    \/ \E v \in CacheValues : Mutate(v)

SpecAlias == InitCache /\ [][NextAlias]_vars

InitVuln ==
    /\ SevIdle
    /\ now = 0
    /\ CacheInit
    /\ VulnInit
    /\ ProviderInit
    /\ CallIdle

SpecVuln == InitVuln /\ [][NextVuln]_vars

\* getCacheInfo on the persistent cache as time passes
SpecInfo == InitVuln /\ [][NextInfo]_vars

\* Writers and readers of one cache file, interleaved
InitRace ==
    /\ SevIdle
    /\ now = 0
    /\ CacheInit
    /\ VulnInit
    /\ ProviderInit
    /\ HeapInit
    /\ call = NoRace

SpecRace == InitRace /\ [][NextRace]_vars

\* One run at a time, over all that the environment can hand it
NextRun ==
    \/ \E p \in RunPaths : GetDependencies(1, p)
    \/ \E p \in RunPaths : GetDependenciesWithVulnerabilities(1, p)
    \/ \E p \in RunPaths : GetFullDependencyGraph(1, p)
    \/ \E exec \in ListExecs(IncludeTransitive(runs[1].operation)) :
           ListPackagesReturns(1, exec)
    \/ \E scan \in Scans : ScanProjectReturns(1, scan)
    \/ \E file \in ProjectFiles, config \in ConfigFiles :
           ParseProjectFileReturns(1, file, config)
    \/ \E exec \in VersionExecs : GetVersionReturns(1, exec)
    \/ \E file \in ProjectFiles : ValidateProjectReturns(1, file)

InitRuns ==
    /\ SevIdle
    /\ now = 0
    /\ CacheInit
    /\ VulnIdle
    /\ ProviderInit
    /\ CallIdle

SpecRun == InitRuns /\ [][NextRun]_vars

\* The same run when every call it awaits settles: each external command
\* carries a timeout and each file operation is synchronous or settles
EverySettles ==
    /\ WF_vars(\E exec \in ListExecs(IncludeTransitive(runs[1].operation)) :
                   ListPackagesReturns(1, exec))
    /\ WF_vars(\E scan \in Scans : ScanProjectReturns(1, scan))
    /\ WF_vars(\E file \in ProjectFiles, config \in ConfigFiles :
                   ParseProjectFileReturns(1, file, config))
    /\ WF_vars(\E exec \in VersionExecs : GetVersionReturns(1, exec))
    /\ WF_vars(\E file \in ProjectFiles : ValidateProjectReturns(1, file))

SpecRunFair == SpecRun /\ EverySettles

\* Concurrent runs on the one provider, over a few of those inputs
FewListExecs ==
    { Exec(0, { }, Json(ListOne)), Exec(1, { }, EmptyOutput),
      Exec(1, { "noproject" }, EmptyOutput) }

FewScans == { Scan(TRUE, Exec(0, { }, EmptyOutput)), Scan(FALSE, Exec(0, { }, Json(ScenarioC))) }

FewFiles == { ReadableFile(ModernXml), [ReadableFile(ModernXml) EXCEPT !.stat = "ENOENT"] }

FewConfigs == { [ReadableFile(ConfigXml) EXCEPT !.access = "ENOENT"] }

FewVersionExecs == { [exitCode |-> 0, version |-> "8.0.100"] }

Next ==
    \/ \E r \in RunIds : GetDependencies(r, "/a/App.csproj")
    \/ \E r \in RunIds : GetDependenciesWithVulnerabilities(r, "/a/App.csproj")
    \/ \E r \in RunIds : GetFullDependencyGraph(r, "/a/App.csproj")
    \/ \E r \in RunIds :
           \E exec \in FewListExecs
                       \cup (IF IncludeTransitive(runs[r].operation)
                             THEN { Exec(0, { }, Json(ListUnrelated)) } ELSE { }) :
               ListPackagesReturns(r, exec)
    \/ \E r \in RunIds, scan \in FewScans : ScanProjectReturns(r, scan)
    \/ \E r \in RunIds, file \in FewFiles, config \in FewConfigs :
           ParseProjectFileReturns(r, file, config)
    \/ \E r \in RunIds, exec \in FewVersionExecs : GetVersionReturns(r, exec)
    \/ \E r \in RunIds, file \in FewFiles : ValidateProjectReturns(r, file)

Spec == InitRuns /\ [][Next]_vars

\* One call of one method, over the arguments it can be given
NextCalls ==
    \/ ParseProjectFileCall
    \/ ListPackagesCall
    \/ ListVulnerablePackagesCall
    \/ RestorePackagesCall
    \/ GetVersionCall
    \/ ExecuteCommandCall
    \/ ListPackagesOverCall
    \/ ParseVulnerablePackagesOutputCall

InitCalls ==
    /\ SevIdle
    /\ now = 0
    /\ CacheInit
    /\ VulnIdle
    /\ ProviderInit
    /\ HeapInit
    /\ call \in ParserCalls \cup ListCalls \cup ScanCalls \cup RestoreCalls
                    \cup VersionCalls \cup ExecCalls
                    \cup ListOverCalls \cup ParseAgainCalls

SpecCalls == InitCalls /\ [][NextCalls]_vars

\* One call of one method of the provider, or of the two validators
NextGraph ==
    \/ CreateGraphDataCall
    \/ ValidateCall
    \/ MergeVulnerabilityDataCall

InitGraph ==
    /\ SevIdle
    /\ now = 0
    /\ CacheInit
    /\ VulnIdle
    /\ ProviderInit
    /\ HeapInit
    /\ \/ call \in GraphCalls
       \/ call \in ValidateCalls
       \/ call \in MergeCalls

SpecGraph == InitGraph /\ [][NextGraph]_vars

InitAssets ==
    /\ SevIdle
    /\ now = 0
    /\ CacheInit
    /\ VulnIdle
    /\ ProviderInit
    /\ HeapInit
    /\ call \in AssetCalls

SpecAssets == InitAssets /\ [][NextAssets]_vars

-----------------------------------------------------------------------------
(* Properties                                                              *)

\* C8: in the in-memory cache, a get or has of a key within the TTL of its
\* last set returns the value set (has: true); once the clock is past the
\* expiry, get returns null, has returns false, and that call removes the
\* entry from the map.
C8_CacheRoundTrip ==
    (cacheOp.op \in { "get", "has" } /\ written[cacheOp.key].present) =>
        LET w == written[cacheOp.key]
            expiresAt == w.at + (IF w.ttl.given THEN w.ttl.ms ELSE DefaultTtl)
        IN  IF cacheOp.at <= expiresAt
            THEN /\ cacheOp.op = "get" => cacheOp.result = w.data
                 /\ cacheOp.op = "has" => cacheOp.result = TRUE
                 /\ cache[cacheOp.key].present
            ELSE /\ cacheOp.op = "get" => cacheOp.result = Null
                 /\ cacheOp.op = "has" => cacheOp.result = FALSE
                 /\ ~cache[cacheOp.key].present

\* a get after the TTL of the last set has elapsed
C8_Witness ==
    /\ cacheOp.op = "get"
    /\ written[cacheOp.key].present
    /\ written[cacheOp.key].ttl.given
    /\ cacheOp.at > written[cacheOp.key].at + written[cacheOp.key].ttl.ms
    /\ cacheOp.result = Null

\* what the severity contract gives for a word, whatever its case and padding
SevExpected(made) ==
    IF ~made.isString THEN "Low"
    ELSE CASE made.word = W_critical -> "Critical"
           [] made.word = W_high     -> "High"
           [] made.word = W_low      -> "Low"
           [] made.word \in { W_moderate, W_medium } -> "Moderate"
           [] OTHER -> "Low"

\* C10: normalizeSeverity returns one of the four severities for every
\* argument; critical, high and low in any letter case and with surrounding
\* white space map to themselves, moderate and medium to Moderate, and every
\* other argument, the values that are no strings included, to Low.
C10_NormalizeSeverityTotal ==
    sevResult # "none" =>
        /\ sevResult \in Severities
        /\ sevResult = SevExpected(sevMade)

\* " HIGH\n" and the like normalised to High
C10_Witness ==
    /\ sevResult = "High"
    /\ sevMade.mode = "upper"
    /\ sevMade.padLeft # << >>
    /\ sevMade.padRight # << >>

FallbackEligible(error) ==
    error.kind = "DotNetCliError" /\ (error.recoverable \/ error.code = SDK_NOT_FOUND)

\* C1: when listPackages fails with a non-recoverable toolchain error other
\* than sdk-not-found, the run never calls parseProjectFile and the error
\* raised to the caller is that toolchain error itself.
C1_NonRecoverablePropagates ==
    \A r \in RunIds :
        LET run == runs[r]
        IN  ( /\ run.listed.called
              /\ ~run.listed.ok
              /\ run.listed.error.kind = "DotNetCliError"
              /\ ~run.listed.error.recoverable
              /\ run.listed.error.code # SDK_NOT_FOUND )
            => /\ run.calls.parseProjectFile = 0
               /\ ~run.parsed.called
               /\ run.pc = "thrown"
               /\ run.thrown = run.listed.error
               /\ run.result = NoResult

\* a run that ended with project-not-found
C1_Witness ==
    \E r \in RunIds :
        /\ runs[r].pc = "thrown"
        /\ runs[r].listed.called
        /\ runs[r].listed.error.code = PROJECT_NOT_FOUND
        /\ runs[r].thrown.code = PROJECT_NOT_FOUND

\* C2, as stated: after a failure of listPackages that is recoverable or
\* sdk-not-found the run calls parseProjectFile exactly once, and if the
\* parse succeeds the run returns exactly the manifest's packages with the
\* analysis method 'project-file'.
C2_AsStated ==
    \A r \in RunIds :
        LET run == runs[r]
        IN  ( /\ run.listed.called
              /\ ~run.listed.ok
              /\ FallbackEligible(run.listed.error) )
            => /\ run.calls.parseProjectFile
                      = (IF run.pc = "parseProjectFile" THEN 0 ELSE 1)
               /\ (run.parsed.called /\ ~run.parsed.ok) => run.pc = "thrown"
               /\ (run.parsed.called /\ run.parsed.ok /\ run.pc = "returned")
                      => /\ run.result.packages = run.parsed.packages
                         /\ run.result.analysisMetadata.analysisMethod = "project-file"

\* the strategy that produced the package list of a run
ProducedBy(run) == IF run.parsed.called /\ run.parsed.ok THEN "project-file" ELSE "dotnet-cli"

\* C3, as stated: whatever the interleaving of the runs on one provider,
\* the analysis method of each returned result is the strategy that
\* produced that run's package list.
C3_AsStated ==
    \A r \in RunIds :
        runs[r].pc = "returned"
            => runs[r].result.analysisMetadata.analysisMethod = ProducedBy(runs[r])

NoDuplicateKeys(packages) ==
    \A i, j \in DOMAIN packages :
        (packages[i].id = packages[j].id /\ packages[i].version = packages[j].version)
            => i = j

\* C4, as stated: no package list returned by a run has two entries with
\* the same id and version.
C4_AsStated ==
    \A r \in RunIds : runs[r].pc = "returned" => NoDuplicateKeys(runs[r].result.packages)

\* C5: when listPackages fails with a fallback-eligible error and
\* parseProjectFile fails too, the run returns nothing and raises one
\* composite error, DEPENDENCY_ANALYSIS_FAILED and not recoverable, whose
\* technical details embed the toolchain error and the manifest error.
C5_CompositeError ==
    \A r \in RunIds :
        LET run == runs[r]
        IN  ( /\ run.listed.called
              /\ ~run.listed.ok
              /\ FallbackEligible(run.listed.error)
              /\ run.parsed.called
              /\ ~run.parsed.ok )
            => /\ run.pc = "thrown"
               /\ run.result = NoResult
               /\ run.packages = << >>
               /\ run.thrown.code = "DEPENDENCY_ANALYSIS_FAILED"
               /\ ~run.thrown.recoverable
               /\ run.thrown.primary = ErrorString(run.listed.error)
               /\ run.thrown.fallback = ErrorString(run.parsed.error)

\* a run whose listing timed out and whose project file does not exist
C5_Witness ==
    \E r \in RunIds :
        /\ runs[r].pc = "thrown"
        /\ runs[r].listed.error.code = TIMEOUT
        /\ runs[r].parsed.called
        /\ runs[r].parsed.error.code = FILE_NOT_FOUND
        /\ runs[r].thrown.code = "DEPENDENCY_ANALYSIS_FAILED"

\* C6: when the vulnerability scan of a run raises an error, typed or not,
\* the run goes on to return the package list as listPackages gave it,
\* with no vulnerabilities attached, and raises nothing.
C6_ScanFailureSwallowed ==
    \A r \in RunIds :
        LET run == runs[r]
        IN  (run.scanned.called /\ ~run.scanned.ok)
            => /\ run.pc \in { "getVersion", "validateProject", "returned" }
               /\ run.thrown = NoError
               /\ run.packages = run.listed.packages
               /\ \A i \in DOMAIN run.packages : ~run.packages[i].hasVulnerabilities
               /\ run.pc = "returned"
                      => /\ run.result.packages = run.listed.packages
                         /\ run.result.vulnerabilityCount.total = 0

\* a run returned two packages after its scan failed with a typed error
C6_Witness ==
    \E r \in RunIds :
        /\ runs[r].pc = "returned"
        /\ runs[r].scanned.called
        /\ ~runs[r].scanned.ok
        /\ runs[r].scanned.error.kind = "DotNetCliError"
        /\ Len(runs[r].result.packages) = 2

\* the tally of the vulnerabilities that a scan reported
Tally(reported) ==
    LET all == AllVulnerabilities(reported)
        count(severity) == Cardinality({ i \in DOMAIN all : all[i].severity = severity })
    IN  [critical |-> count("Critical"), high |-> count("High"),
         moderate |-> count("Moderate"), low |-> count("Low"), total |-> Len(all)]

\* C7, as stated: in a getDependenciesWithVulnerabilities run whose scan
\* succeeds, the returned count tallies every vulnerability that the scan
\* reported, by normalized severity and in total.
C7_AsStated ==
    \A r \in RunIds :
        LET run == runs[r]
        IN  ( /\ run.operation = "getDependenciesWithVulnerabilities"
              /\ run.pc = "returned"
              /\ run.scanned.called
              /\ run.scanned.ok )
            => run.result.vulnerabilityCount = Tally(run.scanned.packages)


\* the PackageReference and Reference elements of a project, in order
RECURSIVE PackageRefsOf(_)
PackageRefsOf(itemGroups) ==
    IF itemGroups = << >> THEN << >>
    ELSE Head(itemGroups).PackageReference \o PackageRefsOf(Tail(itemGroups))

RECURSIVE HintsOf(_)
HintsOf(itemGroups) ==
    IF itemGroups = << >> THEN << >>
    ELSE Head(itemGroups).Reference \o HintsOf(Tail(itemGroups))

\* a manifest: a file that is read and parsed to a Project document whose
\* PackageReference elements all have Include and a version
ManifestOfVersionedRefs(file) ==
    /\ file = ReadableFile(file.xml)
    /\ file.xml.root = "Project"
    /\ \A i \in DOMAIN PackageRefsOf(file.xml.ItemGroup) :
           LET ref == PackageRefsOf(file.xml.ItemGroup)[i]
           IN  ref.hasAttributes /\ ref.Include # "" /\ Or(ref.Version, ref.VersionChild) # ""

NoPackagesConfig(config) == config.access # "ok"

AllDirect(packages) ==
    \A i \in DOMAIN packages : packages[i].depth = 0 /\ ~packages[i].isTransitive

\* C11 as stated: a manifest with N valid, versioned PackageReference
\* entries and no packages.config gives exactly N packages, all direct.
C11_AsStated ==
    ( /\ call.op = "parseProjectFile"
      /\ call.done
      /\ ManifestOfVersionedRefs(call.file)
      /\ NoPackagesConfig(call.config) )
    => /\ call.returned.ok
       /\ Len(call.returned.packages) = Len(PackageRefsOf(call.file.xml.ItemGroup))
       /\ AllDirect(call.returned.packages)

\* the root has an Sdk attribute, or it has none and has a namespace
KnownFormat(xml) ==
    /\ xml.hasAttributes
    /\ xml.Sdk # "" \/ xml.xmlns # "" \/ xml.xsi # ""

DistinctKeys(refs) ==
    \A i, j \in DOMAIN refs :
        ( /\ refs[i].Include = refs[j].Include
          /\ Or(refs[i].Version, refs[i].VersionChild)
                 = Or(refs[j].Version, refs[j].VersionChild) ) => i = j

\* C11: a manifest in the modern or the legacy format with N valid,
\* versioned PackageReference entries of pairwise distinct (id, version),
\* in the legacy format without Reference elements that hint at a packages
\* folder, and with no packages.config next to it, gives exactly N
\* packages: one per entry, in the order of the entries, all direct.
C11_OnePackagePerReference ==
    ( /\ call.op = "parseProjectFile"
      /\ call.done
      /\ ManifestOfVersionedRefs(call.file)
      /\ NoPackagesConfig(call.config)
      /\ KnownFormat(call.file.xml)
      /\ DistinctKeys(PackageRefsOf(call.file.xml.ItemGroup))
      /\ call.file.xml.Sdk = "" =>
             \A i \in DOMAIN HintsOf(call.file.xml.ItemGroup) :
                 HintsOf(call.file.xml.ItemGroup)[i].hintId = "" )
    => LET refs == PackageRefsOf(call.file.xml.ItemGroup)
           packages == call.returned.packages
       IN  /\ call.returned.ok
           /\ Len(packages) = Len(refs)
           /\ AllDirect(packages)
           /\ \A i \in DOMAIN refs :
                  /\ packages[i].id = refs[i].Include
                  /\ packages[i].version = Or(refs[i].Version, refs[i].VersionChild)

\* three entries, one with its version in a child element, three packages
C11_Witness ==
    /\ call.op = "parseProjectFile"
    /\ call.done
    /\ ManifestOfVersionedRefs(call.file)
    /\ NoPackagesConfig(call.config)
    /\ DistinctKeys(PackageRefsOf(call.file.xml.ItemGroup))
    /\ Len(PackageRefsOf(call.file.xml.ItemGroup)) = 3
    /\ call.returned.ok
    /\ Len(call.returned.packages) = 3

\* C12: parseProjectFile on a file of zero bytes raises the
\* ProjectFileError PROJECT_FILE_EMPTY with recoverable = true, and has
\* neither read the file nor parsed anything.
C12_EmptyFileError ==
    ( /\ call.op = "parseProjectFile"
      /\ call.done
      /\ call.file.stat = "ok"
      /\ call.file.isFile
      /\ call.file.size = "zero" )
    => /\ ~call.returned.ok
       /\ call.returned.error.kind = "ProjectFileError"
       /\ call.returned.error.code = FILE_EMPTY
       /\ call.returned.error.recoverable
       /\ \A i \in DOMAIN call.steps :
              call.steps[i] \notin { "readFile", "parseStringPromise" }

\* a zero-byte file that cannot be opened for reading either
C12_Witness ==
    /\ call.op = "parseProjectFile"
    /\ call.done
    /\ call.file.size = "zero"
    /\ call.file.access = "EACCES"
    /\ call.returned.error.code = FILE_EMPTY

\* the entries with an id of a toolchain document, in the order of the
\* document: per framework the top-level ones, then the transitive ones
RECURSIVE WithId(_, _)
WithId(entries, isTransitive) ==
    IF entries = << >> THEN << >>
    ELSE (IF Head(entries).id = "" THEN << >>
          ELSE << [id |-> Head(entries).id, isTransitive |-> isTransitive] >>)
         \o WithId(Tail(entries), isTransitive)

RECURSIVE EntriesWithId(_)
EntriesWithId(frameworks) ==
    IF frameworks = << >> THEN << >>
    ELSE WithId(Head(frameworks).topLevelPackages, FALSE)
         \o WithId(Head(frameworks).transitivePackages, TRUE)
         \o EntriesWithId(Tail(frameworks))

\* C13: for the JSON output of a successful listing, listPackages returns
\* one package per entry with an id: depth 0 and isTransitive = false for a
\* top-level entry, depth 1 and isTransitive = true for a transitive one,
\* so as many packages as there are such entries in all frameworks.
C13_OnePackagePerEntry ==
    ( /\ call.op = "listPackages"
      /\ call.done
      /\ call.projectPath # ""
      /\ call.exec.exitCode = 0
      /\ call.exec.stdout.kind = "json" )
    => LET expected == EntriesWithId(call.exec.stdout.frameworks)
           packages == call.returned.packages
       IN  /\ call.returned.ok
           /\ Len(packages) = Len(expected)
           /\ \A i \in DOMAIN expected :
                  /\ packages[i].id = expected[i].id
                  /\ packages[i].isTransitive = expected[i].isTransitive
                  /\ packages[i].depth = IF expected[i].isTransitive THEN 1 ELSE 0

\* scenario B: three packages of depths 0, 1, 1
C13_Witness ==
    /\ call.op = "listPackages"
    /\ call.done
    /\ call.exec.stdout = Json(ListScenarioB)
    /\ call.returned.ok
    /\ Len(call.returned.packages) = 3
    /\ call.returned.packages[1].depth = 0
    /\ call.returned.packages[2].depth = 1
    /\ call.returned.packages[3].depth = 1

\* what tells that no command was found: the text, or the code ENOENT
MentionsNotFound(result) ==
    "notfound" \in result.stderr \/ result.exitCode = JsString(ENOENT)

\* C16 as stated: a non-zero exit is returned with its exit code and not
\* raised; after a timeout the result mentions the timeout and differs
\* from the result of every command that exited non-zero; after a failure
\* to start the command the result mentions that it was not found.
C16_AsStated ==
    (call.op = "executeCommand" /\ call.done)
    => /\ ~call.returned.threw
       /\ call.settled.cause = "exit" => call.returned.exitCode = call.settled.code
       /\ call.settled.cause = "timeout" =>
              /\ "timeout" \in call.returned.stderr
              /\ \A other \in ExecSettlements :
                     (other.cause = "exit" /\ ~other.resolved)
                         => ExecuteCommand(other) # call.returned
       /\ call.settled.cause = "spawn" => MentionsNotFound(call.returned)

\* C17: when the scan command exits non-zero, listVulnerablePackages
\* returns the empty list if and only if the output has one of the "no
\* vulnerable packages" phrases, and raises a DotNetCliError otherwise.
C17_CleanOnlyWhenSaid ==
    ( /\ call.op = "listVulnerablePackages"
      /\ call.done
      /\ call.projectPath # ""
      /\ call.exec.exitCode # 0 )
    => /\ (call.returned.ok /\ call.returned.packages = << >>)
              <=> "clean" \in call.exec.phrases
       /\ "clean" \notin call.exec.phrases =>
              /\ ~call.returned.ok
              /\ call.returned.error.kind = "DotNetCliError"
              /\ call.returned.error.code \in
                     { PROJECT_NOT_FOUND, NETWORK_ERROR, PERMISSION_DENIED,
                       VULNERABILITY_SCAN_FAILED }

\* exit status 1 with "no vulnerable packages found" among other text
C17_Witness ==
    /\ call.op = "listVulnerablePackages"
    /\ call.done
    /\ call.projectPath # ""
    /\ call.exec.exitCode # 0
    /\ call.exec.phrases = { "clean", "network" }
    /\ call.returned.ok
    /\ call.returned.packages = << >>

\* C18 as stated: every error of listPackages, listVulnerablePackages,
\* restorePackages and getVersion with the code sdk-not-found or
\* project-not-found has recoverable = false, and every one with the code
\* project-invalid has recoverable = true.
C18_AsStated ==
    ( /\ call.op \in { "listPackages", "listVulnerablePackages", "restorePackages",
                        "getVersion" }
      /\ call.done
      /\ ~call.returned.ok )
    => /\ call.returned.error.code \in { SDK_NOT_FOUND, PROJECT_NOT_FOUND }
              => ~call.returned.error.recoverable
       /\ call.returned.error.code = PROJECT_INVALID => call.returned.error.recoverable

\* C14 as stated: the graph of every returned result with more than one
\* package has at least one link.
C14_AsStated ==
    \A r \in RunIds :
        (runs[r].pc = "returned" /\ Len(runs[r].result.packages) > 1)
            => runs[r].result.graphData.links # << >>

\* C15 as stated: the nodes of the graph of every returned result are the
\* packages of the result, one for one in order, with the id
\* `id@version`, and no two nodes have the same id.
C15_AsStated ==
    \A r \in RunIds :
        runs[r].pc = "returned"
            => LET nodes == runs[r].result.graphData.nodes
                   packages == runs[r].result.packages
               IN  /\ Len(nodes) = Len(packages)
                   /\ \A i \in DOMAIN packages :
                          /\ nodes[i].id = packages[i].id \o "@" \o packages[i].version
                          /\ nodes[i].name = packages[i].id
                   /\ \A i, j \in DOMAIN nodes : nodes[i].id = nodes[j].id => i = j

\* C19 as stated: the merge is additive-only.  At every step of the merge
\* of a scan result into the listed packages, a package that already has
\* vulnerabilities keeps them as they are.
C19_AsStated ==
    \A r \in RunIds :
        (runs[r].scanned.called /\ runs[r].scanned.ok)
            => LET vulnerablePackages == runs[r].scanned.packages
                   after(k) == MergeVulnerabilityData(runs[r].listed.packages,
                                                      SubSeq(vulnerablePackages, 1, k))
               IN  \A k \in DOMAIN vulnerablePackages :
                       \A i \in DOMAIN runs[r].listed.packages :
                           after(k - 1)[i].hasVulnerabilities
                               => after(k)[i].vulnerabilities
                                      = after(k - 1)[i].vulnerabilities

\* C20 as stated: the cache has copy semantics.  What get(key) returns
\* holds what the value held when set(key, v) stored it, whatever the
\* callers did since to v or to a value an earlier get(key) returned.
C20_AsStated ==
    ( /\ cacheOp.op = "get"
      /\ cacheOp.result # Null
      /\ written[cacheOp.key].present )
        => heap[cacheOp.result] = written[cacheOp.key].content

\* C21 as stated: in every run that asked for vulnerabilities and has its
\* packages, from the toolchain or from the manifest fallback, the scan
\* was invoked and, where it gave a result, the packages the graph is
\* built from are the acquired ones with that result merged in.
C21_AsStated ==
    \A r \in RunIds :
        (runs[r].graphBuilt /\ IncludeVulnerabilities(runs[r].operation))
            => /\ runs[r].scanned.called
               /\ runs[r].scanned.ok
                      => runs[r].packages
                             = MergeVulnerabilityData(runs[r].listed.packages,
                                                      runs[r].scanned.packages)
               /\ runs[r].graphData
                      = CreateGraphData(runs[r].packages, ModeOf(runs[r].operation))

\* the calls a run has made and got an answer to
Answered(run) ==
    { c \in { "listPackages", "scanProject", "parseProjectFile" } : run.calls[c] > 0 }

\* C22: the stages of one run are strictly ordered.  listPackages is the
\* first call; parseProjectFile is awaited or answered only after
\* listPackages failed, scanProject only after listPackages succeeded; no
\* call is made twice; the graph is built only when the acquisition and
\* the scan, if any, have ended, from the packages they left; the
\* metadata (getVersion, validateProject, the result) come only after the
\* graph.
C22_StagesOrdered ==
    \A r \in RunIds :
        LET run == runs[r]
        IN  /\ \A c \in DOMAIN run.calls : run.calls[c] <= 1
            /\ run.listed.called <=> run.calls.listPackages = 1
            /\ run.scanned.called <=> run.calls.scanProject = 1
            /\ run.parsed.called <=> run.calls.parseProjectFile = 1
            /\ run.pc \in { "idle", "listPackages" }
                   => Answered(run) = { } /\ ~run.graphBuilt
            /\ run.pc \notin { "idle", "listPackages" } => run.listed.called
            /\ (run.pc = "parseProjectFile" \/ run.parsed.called)
                   => ~run.listed.ok /\ ~run.scanned.called
            /\ (run.pc = "scanProject" \/ run.scanned.called)
                   => run.listed.ok /\ ~run.parsed.called
            /\ run.pc = "parseProjectFile" => ~run.parsed.called /\ ~run.graphBuilt
            /\ run.pc = "scanProject" => ~run.scanned.called /\ ~run.graphBuilt
            /\ run.pc = "thrown" => ~run.graphBuilt
            /\ run.graphBuilt
                   => /\ run.listed.ok \/ (run.parsed.called /\ run.parsed.ok)
                      /\ (run.listed.ok /\ IncludeVulnerabilities(run.operation))
                             => run.scanned.called
                      /\ run.graphData
                             = CreateGraphData(run.packages, ModeOf(run.operation))
            /\ run.pc \in { "getVersion", "validateProject", "returned" }
                   <=> run.graphBuilt
            /\ run.sdkVersion # "" => run.pc \in { "validateProject", "returned" }
            /\ run.result # NoResult => run.pc = "returned"

\* a run that went through listPackages and the scan and returned, its
\* graph built from the merged packages
C22_Witness ==
    \E r \in RunIds :
        /\ runs[r].pc = "returned"
        /\ runs[r].scanned.called
        /\ runs[r].scanned.ok
        /\ runs[r].packages # runs[r].listed.packages
        /\ runs[r].result.graphData.nodes # << >>
        /\ runs[r].sdkVersion # ""

\* C23 as stated: listPackages raises sdk-not-found, non-recoverable, when
\* the toolchain binary is missing, and timeout, recoverable, when the
\* listing command timed out; in neither case the generic list-failed.
C23_AsStated ==
    (call.op = "listPackagesOver" /\ call.done /\ call.projectPath # "")
    => /\ BinaryMissing(call.settled)
              => /\ ~call.returned.ok
                 /\ call.returned.error.code = SDK_NOT_FOUND
                 /\ ~call.returned.error.recoverable
       /\ call.settled.cause = "timeout"
              => /\ ~call.returned.ok
                 /\ call.returned.error.code = TIMEOUT
                 /\ call.returned.error.recoverable

VulnerabilityIds(packages) ==
    [i \in DOMAIN AllVulnerabilities(packages) |-> AllVulnerabilities(packages)[i].id]

\* C25 as stated: parsing the same scan output twice gives every
\* vulnerability the same identifier, also where the source has neither
\* id nor advisory URL.
C25_AsStated ==
    (call.op = "parseVulnerablePackagesOutput" /\ Len(call.parses) >= 2)
        => \A i, j \in DOMAIN call.parses :
               VulnerabilityIds(call.parses[i]) = VulnerabilityIds(call.parses[j])

\* the file is read and parsed as XML without error
WellFormed(file) ==
    /\ ValidateFileAccessWithDetails(file) = NoError
    /\ ReadProjectFileWithValidation(file) = NoError
    /\ ParseXmlWithErrorHandling(file) = NoError

\* C26 as stated: parseProjectFile on a well-formed manifest whose root is
\* neither of modern format (an Sdk attribute) nor of legacy format (no
\* Sdk attribute, a namespace attribute), a root without any attribute
\* included, raises PROJECT_FILE_UNSUPPORTED_TYPE with recoverable = false.
C26_AsStated ==
    ( /\ call.op = "parseProjectFile"
      /\ call.done
      /\ WellFormed(call.file)
      /\ ~KnownFormat(call.file.xml) )
    => /\ ~call.returned.ok
       /\ call.returned.error.kind = "ProjectFileError"
       /\ call.returned.error.code = UNSUPPORTED_TYPE
       /\ ~call.returned.error.recoverable

\* C27 as stated: every error parseProjectFile raises is a
\* ProjectFileError whose recoverable flag follows from its code:
\* invalid-format, unsupported-type, permission-denied and file-not-found
\* are not recoverable; empty, corrupted, invalid-XML and encoding-error
\* are.
C27_AsStated ==
    (call.op = "parseProjectFile" /\ call.done /\ ~call.returned.ok)
    => /\ call.returned.error.kind = "ProjectFileError"
       /\ call.returned.error.code
              \in { INVALID_FORMAT, UNSUPPORTED_TYPE, FILE_PERMISSION_DENIED, FILE_NOT_FOUND }
              => ~call.returned.error.recoverable
       /\ call.returned.error.code \in { FILE_EMPTY, CORRUPTED, INVALID_XML, ENCODING_ERROR }
              => call.returned.error.recoverable

\* the age of the file that holds the project's persisted cache, at t
PersistedAge(projectPath, t) == t - DateOf(files[CacheFileOf[projectPath]].json.timestamp)

HasPersisted(projectPath) ==
    /\ files[CacheFileOf[projectPath]].exists
    /\ files[CacheFileOf[projectPath]].parses

\* C28 as stated: where its reads succeed, getCacheInfo(projectPath)
\* reports offlineMode = true exactly when the project has a persisted
\* vulnerability cache and that cache is older than one hour.
C28_AsStated ==
    (vulnOp.op = "info" /\ vulnOp.readOk)
        => (vulnOp.info.offlineMode
               <=> ( /\ HasPersisted(vulnOp.path)
                     /\ PersistedAge(vulnOp.path, vulnOp.at) > OneHour ))

\* the packages.config is there and reading or parsing it fails
ConfigFails(config) ==
    /\ config.access = "ok"
    /\ \/ ReadProjectFileWithValidation(config) # NoError
       \/ ParseXmlWithErrorHandling(config) # NoError

Dead(c, k, t) == c[k].present /\ t > c[k].expiresAt

\* C30: cleanup() leaves no entry with now > expiresAt in the map and
\* leaves every other entry as it was, data and expiry; and an expired
\* entry is not taken out of the map by time passing nor by a get or has
\* of another key, while a get or has of its own key takes it out.
C30_SweepAndLazyEviction ==
    [][ /\ (cacheOp'.op = "cleanup" /\ now' = now)
            => \A k \in CacheKeys :
                   /\ ~Dead(cache', k, now)
                   /\ Dead(cache, k, now) => ~cache'[k].present
                   /\ ~Dead(cache, k, now) => cache'[k] = cache[k]
        /\ \A k \in CacheKeys :
               Dead(cache, k, now)
                   => /\ now' # now => cache'[k] = cache[k]
                      /\ (cacheOp'.op \in { "get", "has" } /\ now' = now)
                             => IF cacheOp'.key = k
                                THEN ~cache'[k].present
                                ELSE cache'[k] = cache[k]
      ]_vars

\* after a sweep at which one entry was dead and another was not: the one
\* written is gone, the other still there and alive
C30_Witness ==
    /\ cacheOp.op = "cleanup"
    /\ cacheOp.at = now
    /\ \E k1, k2 \in CacheKeys :
           /\ written[k1].present
           /\ now > written[k1].at + TimeToLive(written[k1].ttl)
           /\ ~cache[k1].present
           /\ cache[k2].present
           /\ now <= cache[k2].expiresAt

\* a run that has ended, with a result or with a raised error
Ended(run) == run.pc \in { "returned", "thrown" }

\* C31: every analysis run ends, with a result or with a raised error,
\* when every call it awaits settles, and it retries nothing: no call is
\* ever made twice, and a run that has ended has called listPackages
\* exactly once, parseProjectFile at most once and the scan at most once.
C31_TerminatesWithoutRetry ==
    /\ [](\A r \in RunIds :
              /\ \A c \in DOMAIN runs[r].calls : runs[r].calls[c] <= 1
              /\ Ended(runs[r]) => runs[r].calls.listPackages = 1
              /\ runs[r].pc = "returned" => runs[r].thrown = NoError
              /\ runs[r].pc = "thrown" => runs[r].thrown # NoError)
    /\ (runs[1].pc # "idle") ~> Ended(runs[1])

\* a run that ended with a result after one listPackages and one
\* parseProjectFile, and none of them repeated
C31_Witness ==
    /\ runs[1].pc = "returned"
    /\ runs[1].calls.listPackages = 1
    /\ runs[1].calls.parseProjectFile = 1
    /\ runs[1].calls.scanProject = 0
    /\ runs[1].result.packages # << >>

\* the writes of the file that have been called
Writes == { w \in Writers : call.writers[w].pc # "idle" }

\* C32 as stated: however the writes and reads of one cache file
\* interleave, no read raises and every read returns null or the complete
\* list of exactly one of the writes, never a mixture of two.
C32_AsStated ==
    (call.op = "race" /\ vulnOp.op = "read")
        => /\ ~vulnOp.threw
           /\ \/ vulnOp.result.isNull
              \/ \E w \in Writes : SameList(vulnOp.result, call.writers[w].list)

\* the order Low < Moderate < High < Critical
SeverityRank(severity) ==
    CASE severity = "Low" -> 1
      [] severity = "Moderate" -> 2
      [] severity = "High" -> 3
      [] severity = "Critical" -> 4

\* C33: node colouring.  In the vulnerabilities view the node of a package
\* with vulnerabilities has the colour of a vulnerability of it that no
\* other exceeds in severity, and the node of a package without any has
\* the neutral colour; in the dependencies and full views the node at
\* position i (from 0) has colour i mod 10 of the palette.
C33_NodeColouring ==
    (call.op = "createGraphData" /\ call.done)
        => /\ Len(call.graph.nodes) = Len(call.packages)
           /\ \A i \in DOMAIN call.packages :
                 LET found == call.packages[i].vulnerabilities
                     color == call.graph.nodes[i].color
                 IN  IF call.mode = "vulnerabilities"
                     THEN IF found = << >> THEN color = "#6c757d"
                          ELSE \E k \in DOMAIN found :
                                  /\ color = VulnerabilityColors[found[k].severity]
                                  /\ \A j \in DOMAIN found :
                                        SeverityRank(found[j].severity)
                                            <= SeverityRank(found[k].severity)
                     ELSE color = PackageColors[((i - 1) % 10) + 1]

\* a graph of more than ten packages in the full view: the palette has
\* wrapped round at the eleventh node
C33_Witness ==
    /\ call.op = "createGraphData"
    /\ call.done
    /\ call.mode = "full"
    /\ Len(call.graph.nodes) > 10
    /\ call.graph.nodes[10].color = PackageColors[10]
    /\ call.graph.nodes[11].color = PackageColors[1]

\* the two rules of link synthesis, in the words of the rule
SameFirstSegment(id1, id2) == FirstPart(id1) = FirstPart(id2)

SameKnownPattern(id1, id2) ==
    \/ Includes(id1, "EntityFramework") /\ Includes(id2, "EntityFramework")
    \/ Includes(id1, "AspNetCore") /\ Includes(id2, "AspNetCore")
    \/ Includes(id1, "Logging") /\ Includes(id2, "Logging")
    \/ Includes(id1, "Configuration") /\ Includes(id2, "Configuration")

\* the pairs (direct, transitive) and the pairs of transitive packages, by
\* position, that the rules relate
RulePairs(direct, transitive) ==
    { p \in (DOMAIN direct) \X (DOMAIN transitive) :
        \/ SameFirstSegment(direct[p[1]].id, transitive[p[2]].id)
        \/ SameKnownPattern(direct[p[1]].id, transitive[p[2]].id) }

FamilyPairs(transitive) ==
    { p \in (DOMAIN transitive) \X (DOMAIN transitive) :
        p[1] < p[2] /\ SameFirstSegment(transitive[p[1]].id, transitive[p[2]].id) }

HasLink(links, value, source, target) ==
    \E k \in DOMAIN links :
        /\ links[k].value = value
        /\ links[k].source = NodeId(source)
        /\ links[k].target = NodeId(target)

Weighing(links, value) == { k \in DOMAIN links : links[k].value = value }

\* a direct package is linked to a transitive one iff a rule relates them,
\* two transitive packages are linked iff they share their first segment,
\* and there is one link per related pair
ByTheRules(links, direct, transitive) ==
    /\ \A i \in DOMAIN direct, j \in DOMAIN transitive :
          HasLink(links, "1", direct[i], transitive[j])
              <=> << i, j >> \in RulePairs(direct, transitive)
    /\ Cardinality(Weighing(links, "1")) = Cardinality(RulePairs(direct, transitive))
    /\ \A i \in DOMAIN transitive, j \in DOMAIN transitive :
          i < j => (HasLink(links, "0.5", transitive[i], transitive[j])
                        <=> << i, j >> \in FamilyPairs(transitive))
    /\ Cardinality(Weighing(links, "0.5")) = Cardinality(FamilyPairs(transitive))

\* no link joins two direct packages: a link goes from a direct package
\* to a transitive one, or, with the lighter weight, between two
\* transitive ones
NoneAmongDirect(links, direct, transitive) ==
    \A k \in DOMAIN links :
        /\ links[k].value \in { "1", "0.5" }
        /\ \E j \in DOMAIN transitive : links[k].target = NodeId(transitive[j])
        /\ IF links[k].value = "1"
           THEN \E i \in DOMAIN direct : links[k].source = NodeId(direct[i])
           ELSE \E i \in DOMAIN transitive : links[k].source = NodeId(transitive[i])

\* C34 as stated: the links of every graph are exactly those of the two
\* rules, and none joins two direct packages.
C34_AsStated ==
    (call.op = "createGraphData" /\ call.done)
        => LET direct == DirectPackages(call.packages)
               transitive == TransitivePackages(call.packages)
           IN  /\ ByTheRules(call.graph.links, direct, transitive)
               /\ NoneAmongDirect(call.graph.links, direct, transitive)

\* C34, amended: the links are exactly those of the two rules whenever a
\* rule relates some pair or the list has fewer than two packages; when
\* no rule relates any pair of a longer list, every link goes, with
\* weight 1, from a direct package to a transitive one that no rule
\* relates to it; and in no graph a link joins two direct packages.
C34_LinkRules ==
    (call.op = "createGraphData" /\ call.done)
        => LET direct == DirectPackages(call.packages)
               transitive == TransitivePackages(call.packages)
               unrelated == /\ RulePairs(direct, transitive) = { }
                            /\ FamilyPairs(transitive) = { }
                            /\ Len(call.packages) > 1
           IN  /\ ~unrelated => ByTheRules(call.graph.links, direct, transitive)
               /\ unrelated => Weighing(call.graph.links, "0.5") = { }
               /\ NoneAmongDirect(call.graph.links, direct, transitive)

\* a graph with a link by the first segment, a link by a known pattern
\* alone and a link between two transitive packages, and a direct and a
\* transitive package left unlinked
C34_Witness ==
    /\ call.op = "createGraphData"
    /\ call.done
    /\ LET direct == DirectPackages(call.packages)
           transitive == TransitivePackages(call.packages)
       IN  /\ \E p \in RulePairs(direct, transitive) :
                 ~SameFirstSegment(direct[p[1]].id, transitive[p[2]].id)
           /\ FamilyPairs(transitive) # { }
           /\ RulePairs(direct, transitive)
                  # (DOMAIN direct) \X (DOMAIN transitive)
           /\ Cardinality(Weighing(call.graph.links, "1")) >= 1
           /\ Cardinality(Weighing(call.graph.links, "0.5")) >= 1

\* C35 as stated: the flags of the metadata describe the data in the
\* result.  hasVulnerabilityData is true only in a run whose scan gave a
\* result, and hasTransitiveDependencies only in a run whose packages
\* come from the listing with transitive packages; a run whose scan
\* failed or was skipped, or that fell back to the manifest, reports the
\* flag as false.
C35_AsStated ==
    \A r \in RunIds :
        runs[r].pc = "returned"
            => LET run == runs[r]
                   metadata == run.result.analysisMetadata
               IN  /\ metadata.hasVulnerabilityData
                          => run.scanned.called /\ run.scanned.ok
                   /\ metadata.hasTransitiveDependencies
                          => /\ IncludeTransitive(run.operation)
                             /\ run.listed.ok
                             /\ ~run.parsed.called

\* the family of a moniker by the stated prefix rules
FamilyOf(f) ==
    IF \E d \in { "5", "6", "7", "8", "9" } : StartsWith(f, Net(d)) THEN "dotnet-5+"
    ELSE IF StartsWith(f, NetCoreApp) \/ StartsWith(f, NetStandard) THEN "dotnet-core"
    ELSE IF \E d \in { "2", "3", "4" } : StartsWith(f, Net(d)) THEN "dotnet-framework"
    ELSE "unknown"

\* C36 as stated: on every project file the two validators return the
\* same project type, and a project that targets one framework has the
\* type that the prefix rules give its moniker: net5..net9 dotnet-5+,
\* netcoreapp and netstandard dotnet-core, net2, net3 and net4
\* dotnet-framework.
C36_AsStated ==
    (call.op = "validate" /\ call.done)
        => /\ call.parser.projectType = call.provider.projectType
           /\ \A v \in { call.parser, call.provider } :
                 (Len(v.frameworks) = 1 /\ FamilyOf(v.frameworks[1]) # "unknown")
                     => v.projectType = FamilyOf(v.frameworks[1])

NodeIds(graph) == { graph.nodes[i].id : i \in DOMAIN graph.nodes }

\* C37: in every graph that createGraphData builds, the source and the
\* target of every link are ids of nodes of that graph.
C37_LinksJoinNodes ==
    (call.op = "createGraphData" /\ call.done)
        => \A k \in DOMAIN call.graph.links :
               /\ call.graph.links[k].source \in NodeIds(call.graph)
               /\ call.graph.links[k].target \in NodeIds(call.graph)

\* a graph with links of both weights among its three nodes
C37_Witness ==
    /\ call.op = "createGraphData"
    /\ call.done
    /\ Cardinality(NodeIds(call.graph)) = 3
    /\ Weighing(call.graph.links, "1") # { }
    /\ Weighing(call.graph.links, "0.5") # { }

\* the graph calls in which the fallback link set is built: no rule
\* relates any pair of a list of more than one package
FallbackBuilt ==
    /\ call.op = "createGraphData"
    /\ call.done
    /\ Len(call.packages) > 1
    /\ RulePairs(DirectPackages(call.packages), TransitivePackages(call.packages)) = { }
    /\ FamilyPairs(TransitivePackages(call.packages)) = { }

\* the ways to give each of T positions of the transitive list to one of
\* D direct packages in disjoint runs of consecutive positions, in the
\* order of the direct packages, none longer than ceil(T / D)
Slicings(D, T) ==
    { owner \in [1..T -> 1..D] :
        /\ \A a \in 1..T, b \in 1..T : a < b => owner[a] <= owner[b]
        /\ \A i \in 1..D :
              Cardinality({ k \in 1..T : owner[k] = i }) * D < T + D }

\* C38: when the fallback link set is built for D >= 1 direct and T >= 1
\* transitive packages, there is exactly one link per transitive package,
\* in the order of the transitive list, and the direct packages they come
\* from split the list into disjoint slices of consecutive positions, of
\* at most ceil(T / D) each, that together cover it.  With D = 0 or
\* T = 0 there is no link.
C38_FallbackSlices ==
    FallbackBuilt
        => LET direct == DirectPackages(call.packages)
               transitive == TransitivePackages(call.packages)
               links == call.graph.links
               D == Len(direct)
               T == Len(transitive)
           IN  IF D = 0 \/ T = 0 THEN links = << >>
               ELSE /\ Len(links) = T
                    /\ \A k \in 1..T :
                          /\ links[k].target = NodeId(transitive[k])
                          /\ links[k].value = "1"
                    /\ \E owner \in Slicings(D, T) :
                          \A k \in 1..T : links[k].source = NodeId(direct[owner[k]])

\* a fallback over three direct and four transitive packages: slices of
\* two, two and none
C38_Witness ==
    /\ FallbackBuilt
    /\ Len(DirectPackages(call.packages)) = 3
    /\ Len(TransitivePackages(call.packages)) = 4
    /\ Len(call.graph.links) = 4
    /\ call.graph.links[2].source = NodeId(DirectPackages(call.packages)[1])
    /\ call.graph.links[3].source = NodeId(DirectPackages(call.packages)[2])
    /\ call.graph.links[4].source = NodeId(DirectPackages(call.packages)[2])

\* a package with its vulnerabilities left out
Bare(pkg) == [pkg EXCEPT !.hasVulnerabilities = FALSE, !.vulnerabilities = << >>]

\* C39: mergeVulnerabilityData changes nothing but vulnerabilities.  The
\* list keeps its length and its order and every package all its other
\* fields (id, version, depth, isTransitive among them); each scan entry
\* changes at most one package, the first of the list that has its id;
\* a scan entry whose id is not in the list changes nothing and adds no
\* package.
C39_MergeFrame ==
    (call.op = "mergeVulnerabilityData" /\ call.done)
        => /\ Len(call.steps) = Len(call.vulnerablePackages) + 1
           /\ call.steps[1] = call.packages
           /\ \A k \in DOMAIN call.steps :
                 /\ Len(call.steps[k]) = Len(call.packages)
                 /\ \A i \in DOMAIN call.packages :
                       Bare(call.steps[k][i]) = Bare(call.packages[i])
           /\ \A k \in DOMAIN call.vulnerablePackages :
                 LET changed == { i \in DOMAIN call.packages :
                                      call.steps[k + 1][i] # call.steps[k][i] }
                     sameId == { i \in DOMAIN call.packages :
                                     call.packages[i].id = call.vulnerablePackages[k].id }
                 IN  /\ Cardinality(changed) <= 1
                     /\ \A i \in changed : i \in sameId /\ \A j \in sameId : i <= j
                     /\ sameId = { } => call.steps[k + 1] = call.steps[k]

\* a merge of two scan entries into a list that has the id of the first
\* twice and not the id of the second: the first of the two packages is
\* changed, the other is not
C39_Witness ==
    /\ call.op = "mergeVulnerabilityData"
    /\ call.done
    /\ Len(call.packages) = 3
    /\ Len(call.vulnerablePackages) = 2
    /\ call.packages[2].id = "Serilog"
    /\ call.packages[3].id = "Serilog"
    /\ call.vulnerablePackages[1].id = "Serilog"
    /\ call.vulnerablePackages[2].id = "Polly"
    /\ call.steps[2][2] # call.packages[2]
    /\ call.steps[2][3] = call.packages[3]
    /\ call.steps[3] = call.steps[2]

\* the names that have an entry in loadingProgress
Tracked(loadingStatus) ==
    { loadingStatus.loadingProgress[i].assetName :
          i \in DOMAIN loadingStatus.loadingProgress }

WithStatus(loadingStatus, s) ==
    { loadingStatus.loadingProgress[i].assetName :
          i \in { j \in DOMAIN loadingStatus.loadingProgress :
                      loadingStatus.loadingProgress[j].status = s } }

\* loadedAssets and failedAssets are the counts of the entries
CountersOfEntries(loadingStatus) ==
    /\ loadingStatus.loadedAssets = Cardinality(WithStatus(loadingStatus, "loaded"))
    /\ { loadingStatus.failedAssets[i] : i \in DOMAIN loadingStatus.failedAssets }
           = WithStatus(loadingStatus, "failed")
    /\ Len(loadingStatus.failedAssets) = Cardinality(WithStatus(loadingStatus, "failed"))

\* C40: after any sequence of updateAssetProgress and reloadAsset calls
\* loadedAssets is the number of tracked assets whose status is 'loaded',
\* failedAssets is exactly the set of tracked assets whose status is
\* 'failed', loadedAssets + |failedAssets| <= totalAssets, and an update
\* for a name that is not tracked leaves the whole loading status unchanged
C40_AsStated ==
    call.op = "assets" =>
        /\ CountersOfEntries(call.loadingStatus)
        /\ call.loadingStatus.loadedAssets + Len(call.loadingStatus.failedAssets)
               <= call.loadingStatus.totalAssets
        /\ (call.last.method = "updateAssetProgress" /\ ~call.last.tracked)
               => call.last.same

=============================================================================
